---- MODULE Spec2Model ----
(***************************************************************************)
(* A model of the low-delay translation pipeline: the channel registry     *)
(* (QueueManager), the stage base class (ProcessBase.run), the supervisor  *)
(* (ProcessManager) and the seven stages that main() registers.            *)
(*                                                                         *)
(* The stage-private components are modelled next to it: the utterance     *)
(* window of the recognizer, the speaker diarizer, the translator's cache   *)
(* and context buffers, and the transcript writer.                         *)
(*                                                                         *)
(* The specifications share the variables:                                 *)
(*   SpecRegistry  arbitrary sequences of calls on the channel registry    *)
(*   Spec          the program main() builds: start_all, the stages,       *)
(*                 the signal handler's stop_all                           *)
(*   SpecControl   the overlay's Start/Stop clicks against capture's loop  *)
(*   SpecWindow    the recognizer's loop over dequeued audio frames        *)
(*   SpecDiarizer  calls of identify_speaker and reset as time passes      *)
(*   SpecCache     the translator's loop over recognized texts             *)
(*   SpecEvict     the same loop over three texts, for the cache's capacity *)
(*   SpecContext   the same loop under every engine and with two speakers  *)
(*   SpecLength    the same loop over long texts, for the context string   *)
(*   SpecWriter    the transcript writer: setup, loop and cleanup          *)
(*   SpecScript    the transcript writer fed the speakers 1, 1, 1, 2, 1    *)
(***************************************************************************)
EXTENDS Integers, Sequences, FiniteSets, TLC

\* ------------------------------------------------------------------ bounds

\* Stands for every maxsize main() passes to create_queue (10, 50, 100):
\* channels are scaled down so that "full" is reached within the bounds.
QCap == 1
\* Channel objects ever allocated in one SpecRegistry behaviour.
MaxChans == 3
\* Audio frames the driver delivers to _audio_callback in one behaviour.
MaxFrames == 2
\* Clicks on the tray menu's Start/Stop entry in one behaviour.
MaxToggles == 1

\* ---------------------------------------------------------------- registry

\* Python's None, as returned by dict.get for a missing key.  Channel
\* objects are identified by their allocation index, which starts at 1.
None == 0

EmptyFn == [x \in {} |-> None]

Range(f) == {f[x] : x \in DOMAIN f}

\* A fresh mp.Queue(maxsize).
NewQueue(maxsize) == [maxsize |-> maxsize, items |-> <<>>, closed |-> FALSE]

\* The registry is R = [queues: name -> channel id, chans: id -> mp.Queue].

\* Mutant of create_queue: the membership test is dropped, so a second call
\* replaces the registered channel by a fresh one.
create_queue_replacing(R, name, maxsize) ==
    [queues |-> (name :> (Len(R.chans) + 1)) @@ R.queues,
     chans  |-> Append(R.chans, NewQueue(maxsize))]

\* QueueManager.create_queue: register a new channel unless the name exists.
create_queue(R, name, maxsize) ==
    IF name \in DOMAIN R.queues
    THEN R
    ELSE [queues |-> (name :> (Len(R.chans) + 1)) @@ R.queues,
          chans  |-> Append(R.chans, NewQueue(maxsize))]

\* QueueManager.get_queue: cls._queues.get(name), None when absent.
get_queue(R, name) ==
    IF name \in DOMAIN R.queues THEN R.queues[name] ELSE None

\* QueueManager.cleanup: close every registered queue, clear the dict.
cleanup(R) ==
    [queues |-> EmptyFn,
     chans  |-> [i \in DOMAIN R.chans |->
                    IF i \in Range(R.queues)
                    THEN [R.chans[i] EXCEPT !.closed = TRUE]
                    ELSE R.chans[i]]]

\* mp.Queue.full()
Full(ch) == Len(ch.items) >= ch.maxsize


\* A channel after put_nowait(x): queue.Full is raised on a full channel and
\* both callers (capture, overlay) swallow it, leaving the channel as it was.
put_nowait(ch, x) ==
    IF Full(ch) THEN ch ELSE [ch EXCEPT !.items = Append(@, x)]

\* ------------------------------------------------------------ main wiring

\* The stages in the order main() adds them to ProcessManager.processes.
ProcOrder == <<"AudioCapture", "ASR", "Translation", "TTS",
               "TranscriptWriter", "AudioPlayback", "OverlayUI">>
Procs == Range(ProcOrder)
\* Stages driven by ProcessBase.run; OverlayProcess overrides run().
BaseStages == Procs \ {"OverlayUI"}
\* translation.engine, read once by main().
Engines == {"marian", "nllb", "google"}

\* The registry after each constructor of main(), in construction order.
R0 == [queues |-> EmptyFn, chans |-> <<>>]
RCapture == create_queue(create_queue(R0, "audio_control", QCap),
                         "audio_input", QCap)
RAsr == create_queue(RCapture, "asr_output", QCap)
RTranslation == create_queue(create_queue(RAsr, "tts_input", QCap),
                             "ui_input", QCap)
\* EdgeTTSProcess.__init__ creates "audio_playback" only in the except
\* branch of its lookup, which runs only if get_queue raises.
RTts == RTranslation
RWriter == create_queue(RTts, "transcript_input", QCap)
RMain == create_queue(RWriter, "audio_playback", QCap)

\* The registry a stage sees inside its own process: start_all forces the
\* spawn start method, so the child re-imports pipeline.py and its
\* QueueManager._queues is the empty class attribute.
RChild == R0

\* The channel handles each constructor stores.
capture_control_queue == get_queue(RCapture, "audio_control")
capture_audio_queue == get_queue(RCapture, "audio_input")
asr_input_queue == get_queue(RCapture, "audio_input")
asr_output_queue == get_queue(RAsr, "asr_output")
translation_input_queue == get_queue(RAsr, "asr_output")
translation_tts_queue == get_queue(RTranslation, "tts_input")
translation_ui_queue == get_queue(RTranslation, "ui_input")
\* Looked up in __init__ (before the writer exists) and again in each loop().
translation_transcript_queue ==
    IF get_queue(RTranslation, "transcript_input") # None
    THEN get_queue(RTranslation, "transcript_input")
    ELSE get_queue(RChild, "transcript_input")
tts_input_queue == get_queue(RTranslation, "tts_input")
tts_output_queue == get_queue(RTranslation, "audio_playback")
writer_input_queue == get_queue(RWriter, "transcript_input")
playback_input_queue == get_queue(RMain, "audio_playback")
overlay_input_queue == get_queue(RMain, "ui_input")
overlay_audio_control_queue == get_queue(RMain, "audio_control")

\* The channel a stage's loop() receives from.
InputQueue(s) ==
    CASE s = "ASR" -> asr_input_queue
      [] s = "Translation" -> translation_input_queue
      [] s = "TTS" -> tts_input_queue
      [] s = "TranscriptWriter" -> writer_input_queue
      [] s = "AudioPlayback" -> playback_input_queue
      [] s = "OverlayUI" -> overlay_input_queue
      [] OTHER -> None

\* The blocking put() calls one successful iteration makes, in code order.
\* A put on a None handle raises AttributeError, which the stage's own
\* except clause logs: nothing is sent.
OutputQueues(s) ==
    CASE s = "ASR" -> <<asr_output_queue>>
      [] s = "Translation" ->
            <<translation_tts_queue, translation_ui_queue>> \o
            (IF translation_transcript_queue # None
             THEN <<translation_transcript_queue>> ELSE <<>>)
      [] s = "TTS" ->
            IF tts_output_queue # None THEN <<tts_output_queue>> ELSE <<>>
      [] OTHER -> <<>>

\* The stage that receives from a channel.
Consumer(c) ==
    CASE c = asr_input_queue -> "ASR"
      [] c = translation_input_queue -> "Translation"
      [] c = tts_input_queue -> "TTS"
      [] c = writer_input_queue -> "TranscriptWriter"
      [] c = playback_input_queue -> "AudioPlayback"
      [] c = overlay_input_queue -> "OverlayUI"
      [] OTHER -> "AudioCapture"

\* ------------------------------------------------------------------ state

VARIABLES
    queues,        \* QueueManager._queues of the main process: name -> channel
    chans,         \* the mp.Queue objects, by allocation index
    ret,           \* the last registry call and what it returned
    pmPc,          \* ProcessManager: "init", "monitor", "join", "done"
    joinIdx,       \* stop_all's position in its join loop (0: not joining)
    pc,            \* each stage's position in run()
    should_exit,   \* each stage's mp.Event
    pending,       \* the put() calls an in-flight iteration still has to make
    setupRes,      \* how each stage's setup() ended
    cleanups,      \* how often each stage's cleanup() ran
    engine,        \* translation.engine
    paused,        \* AudioCaptureProcess.paused
    is_running,    \* OverlayProcess.is_running
    nextFrame,     \* the number of the next frame the audio driver delivers
    toggles,       \* clicks on Start/Stop so far
    audio_buffer,  \* NeMoASRProcess.audio_buffer
    buffer_duration_ms,  \* NeMoASRProcess.buffer_duration_ms
    utterances,    \* the buffers _process_buffer has handed to inference
    dequeued,      \* the frames loop() has received so far
    speakers,      \* SpeakerDiarizer.speakers: id -> identity
    next_speaker_id,     \* SpeakerDiarizer.next_speaker_id
    current_speaker_id,  \* SpeakerDiarizer.current_speaker_id
    stats,         \* SpeakerDiarizer.stats
    assigned,      \* every (id, identity) pair _create_new_speaker made
    now,           \* time.time()
    translation_cache,   \* ContextTranslator.translation_cache
    metrics,       \* ContextTranslator.metrics
    calls,         \* the invocations of translate_with_context so far
    speaker_contexts,        \* ContextTranslator.speaker_contexts
    global_context_buffer,   \* ContextTranslator.global_context_buffer
    translator_speaker_id,   \* ContextTranslator.current_speaker_id
    writerPc,      \* TranscriptWriterProcess.run: "new", "loop", "done"
    enabled,       \* TranscriptWriterProcess.enabled
    file_handle,   \* TranscriptWriterProcess.file_handle: "none", "open",
                   \* "closed"
    transcript,    \* what has been written to the transcript file
    current_buffer,  \* TranscriptWriterProcess.current_buffer: <<>> for
                     \* None, else the one accumulator
    received       \* the messages input_queue.get has returned, with the
                   \* time of their return

regVars == <<queues, chans, ret>>
pmVars == <<pmPc, joinIdx>>
stageVars == <<pc, should_exit, pending, setupRes, cleanups, engine>>
audioVars == <<paused, is_running, nextFrame, toggles, audio_buffer>>
\* The state of the stage-private components (windowing, speaker tracker,
\* translation cache), which the pipeline-level actions leave alone.
trVars == <<translation_cache, metrics, calls, speaker_contexts,
            global_context_buffer, translator_speaker_id>>
twVars == <<writerPc, enabled, file_handle, transcript, current_buffer,
            received>>
libVars == <<buffer_duration_ms, utterances, dequeued, speakers,
             next_speaker_id, current_speaker_id, stats, assigned, now,
             trVars, twVars>>
vars == <<queues, chans, ret, pmPc, joinIdx, pc, should_exit, pending,
          setupRes, cleanups, engine, paused, is_running, nextFrame, toggles,
          audio_buffer, buffer_duration_ms, utterances, dequeued, speakers,
          next_speaker_id, current_speaker_id, stats, assigned, now,
          translation_cache, metrics, calls, speaker_contexts,
          global_context_buffer, translator_speaker_id, writerPc, enabled,
          file_handle, transcript, current_buffer, received>>

NoCall == [op |-> "none", name |-> "", maxsize |-> 0, existed |-> FALSE,
           val |-> None]

\* The text messages of the pipeline are not told apart in this module.
Msg == "msg"

\* The stage-private components as their constructors leave them.
LibInit ==
    /\ buffer_duration_ms = 0
    /\ utterances = <<>>
    /\ dequeued = <<>>
    /\ speakers = EmptyFn
    /\ next_speaker_id = 1
    /\ current_speaker_id = None
    /\ stats = [total_identifications |-> 0, new_speakers_detected |-> 0,
                speaker_changes |-> 0]
    /\ assigned = {}
    /\ now = 0
    /\ translation_cache = <<>>
    /\ metrics = [total_translations |-> 0, cache_hits |-> 0,
                  cache_misses |-> 0, with_context |-> 0,
                  without_context |-> 0]
    /\ calls = <<>>
    /\ speaker_contexts = EmptyFn
    /\ global_context_buffer = <<>>
    /\ translator_speaker_id = None
    /\ writerPc = "new"
    /\ enabled = TRUE
    /\ file_handle = "none"
    /\ transcript = <<>>
    /\ current_buffer = <<>>
    /\ received = <<>>

\* The state main() has built when it calls pm.start_all().
Init ==
    /\ queues = RMain.queues
    /\ chans = RMain.chans
    /\ ret = NoCall
    /\ pmPc = "init"
    /\ joinIdx = 0
    /\ pc = [s \in Procs |-> "new"]
    /\ should_exit = [s \in Procs |-> FALSE]
    /\ pending = [s \in Procs |-> <<>>]
    /\ setupRes = [s \in Procs |-> "none"]
    /\ cleanups = [s \in Procs |-> 0]
    /\ engine \in Engines
    /\ paused = TRUE
    /\ is_running = FALSE
    /\ nextFrame = 1
    /\ toggles = 0
    /\ audio_buffer = <<>>
    /\ LibInit

\* --------------------------------------------------------- ProcessBase.run

Alive(s) == pc[s] \notin {"new", "exited", "terminated"}

\* How setup() of a stage can end: "ok"; "raised" (an exception leaves
\* setup); "stopped" (the failure is caught and self.stop() is called);
\* "degraded" (the failure is caught and the stage carries on without the
\* collaborator).
SetupOutcomes(s) ==
    CASE s = "AudioCapture" -> {"ok", "stopped", "raised"}
      [] s = "ASR" -> {"ok", "stopped"}
      [] s = "Translation" ->
            IF engine = "google" THEN {"ok", "degraded"} ELSE {"ok", "raised"}
      [] s = "TranscriptWriter" -> {"ok", "degraded"}
      [] s = "AudioPlayback" -> {"ok", "raised"}
      [] OTHER -> {"ok"}

\* Whether setup() itself called self.stop() before ending that way.
SetupStops(s, o) ==
    o = "stopped" \/ (o = "raised" /\ s = "Translation")

\* Mutant of AfterSetup: the outer try/except is missing its effect, an
\* exception leaving setup() does not keep the stage out of its loop.
AfterSetup_raise_ignored(o, stopped) ==
    IF stopped THEN "exited" ELSE "idle"

\* Where run() is after setup(): an exception leaving setup() skips the
\* while loop (outer except, then finally: cleanup); a set should_exit makes
\* the while loop end at its first test (then finally: cleanup).
AfterSetup(o, stopped) ==
    IF o = "raised" \/ stopped THEN "exited" ELSE "idle"

\* run() from its start to the first test of the while loop.
Setup(s, o) ==
    /\ s \in BaseStages
    /\ pc[s] = "started"
    /\ o \in SetupOutcomes(s)
    /\ LET stopped == should_exit[s] \/ SetupStops(s, o)
           to == AfterSetup(o, stopped)
       IN /\ pc' = [pc EXCEPT ![s] = to]
          /\ should_exit' = [should_exit EXCEPT ![s] = stopped]
          /\ cleanups' = [cleanups EXCEPT ![s] = IF to = "exited" THEN @ + 1 ELSE @]
    /\ setupRes' = [setupRes EXCEPT ![s] = o]
    /\ UNCHANGED <<libVars, regVars, pmVars, pending, engine, audioVars>>

\* put() blocks on a full channel: the puts made, in order, until one blocks.
RECURSIVE DoPuts(_, _)
DoPuts(chs, pend) ==
    IF pend = <<>> THEN [chans |-> chs, pending |-> <<>>]
    ELSE IF Full(chs[Head(pend)]) THEN [chans |-> chs, pending |-> pend]
    ELSE DoPuts([chs EXCEPT ![Head(pend)].items = Append(@, Msg)], Tail(pend))

\* Frames per utterance window: min_duration_ms over the duration of one
\* frame, scaled down.
WindowFrames == 1

\* The test of "while not self.should_exit.is_set()" that lets loop() run.
StartsIteration(s) == pc[s] = "idle" /\ ~should_exit[s]

\* The channel with its oldest message received.
Receive(chs, c) == [chs EXCEPT ![c].items = Tail(@)]

\* AudioCaptureProcess.loop: apply one pause/resume command, if any, sleep.
CaptureLoop ==
    /\ StartsIteration("AudioCapture")
    /\ LET c == capture_control_queue
       IN IF chans[c].items = <<>>
          THEN UNCHANGED <<chans, paused>>
          ELSE /\ chans' = Receive(chans, c)
               /\ paused' = (IF Head(chans[c].items) = "resume" THEN FALSE
                             ELSE IF Head(chans[c].items) = "pause" THEN TRUE
                             ELSE paused)
    /\ UNCHANGED <<libVars, queues, ret, pmVars, stageVars, is_running, nextFrame,
                   toggles, audio_buffer>>

\* NeMoASRProcess.loop up to the model's forward pass in _process_buffer:
\* receive a frame (a timeout changes nothing), append it, and once the
\* window is long enough clear the buffer and run inference on it.
AsrLoop ==
    /\ StartsIteration("ASR")
    /\ LET c == asr_input_queue
           buf == Append(audio_buffer, Head(chans[c].items))
       IN IF chans[c].items = <<>>
          THEN UNCHANGED <<chans, audio_buffer, pc>>
          ELSE /\ chans' = Receive(chans, c)
               /\ IF Len(buf) >= WindowFrames
                  THEN /\ audio_buffer' = <<>>
                       /\ pc' = [pc EXCEPT !["ASR"] = "infer"]
                  ELSE /\ audio_buffer' = buf
                       /\ UNCHANGED pc
    /\ UNCHANGED <<libVars, queues, ret, pmVars, should_exit, pending, setupRes,
                   cleanups, engine, paused, is_running, nextFrame, toggles>>

\* ContextTranslator.loop and EdgeTTSProcess.loop up to the collaborator
\* call (translate_with_context, _synthesize): receive one message.
TextLoop(s) ==
    /\ s \in {"Translation", "TTS"}
    /\ StartsIteration(s)
    /\ IF chans[InputQueue(s)].items = <<>>
       THEN UNCHANGED <<chans, pc>>
       ELSE /\ chans' = Receive(chans, InputQueue(s))
            /\ pc' = [pc EXCEPT ![s] = "infer"]
    /\ UNCHANGED <<libVars, queues, ret, pmVars, should_exit, pending, setupRes,
                   cleanups, engine, audioVars>>

\* TranscriptWriterProcess.loop and AudioPlaybackProcess.loop: receive one
\* message and consume it; a writer whose file failed to open only sleeps.
SinkLoop(s) ==
    /\ s \in {"TranscriptWriter", "AudioPlayback"}
    /\ StartsIteration(s)
    /\ IF chans[InputQueue(s)].items = <<>> \/ setupRes[s] = "degraded"
       THEN UNCHANGED chans
       ELSE chans' = Receive(chans, InputQueue(s))
    /\ UNCHANGED <<libVars, queues, ret, pmVars, stageVars, audioVars>>

\* Whether the collaborator call of a stage can fail.  GoogleTranslator-
\* Process._translate_text catches every exception and returns its input.
CallOutcomes(s) ==
    IF s = "Translation" /\ engine = "google" THEN {TRUE} ELSE BOOLEAN

\* The rest of an iteration after the collaborator call returned: its
\* result is sent on each output channel; a failure was caught and logged
\* by the stage's own except clause and the item is dropped.
InferReturn(s, ok) ==
    /\ pc[s] = "infer"
    /\ ok \in CallOutcomes(s)
    /\ LET r == DoPuts(chans, IF ok THEN OutputQueues(s) ELSE <<>>)
       IN /\ chans' = r.chans
          /\ pending' = [pending EXCEPT ![s] = r.pending]
          /\ pc' = [pc EXCEPT ![s] = IF r.pending = <<>> THEN "idle" ELSE "put"]
    /\ UNCHANGED <<libVars, queues, ret, pmVars, should_exit, setupRes, cleanups,
                   engine, audioVars>>

\* A put() that was blocked on a full channel goes on once there is room.
PutResume(s) ==
    /\ pc[s] = "put"
    /\ ~Full(chans[Head(pending[s])])
    /\ LET r == DoPuts(chans, pending[s])
       IN /\ chans' = r.chans
          /\ pending' = [pending EXCEPT ![s] = r.pending]
          /\ pc' = [pc EXCEPT ![s] = IF r.pending = <<>> THEN "idle" ELSE "put"]
    /\ UNCHANGED <<libVars, queues, ret, pmVars, should_exit, setupRes, cleanups,
                   engine, audioVars>>

\* Mutant of AfterLoopError: the exception ends the stage.
AfterLoopError_exits == "exited"

\* Where run() is after loop() raised: the inner except logs the error and
\* sleeps 0.1 s inside the while loop.
AfterLoopError == "errsleep"

\* The stages whose loop() lets an exception out.  AudioCaptureProcess.loop
\* catches queue.Empty only; every other loop() wraps its body in
\* "except Exception" (see InferReturn for what that does to the item).
RaisingLoops == {"AudioCapture"}

\* An iteration whose loop() raises an exception that loop() does not catch.
LoopError(s) ==
    /\ s \in RaisingLoops
    /\ StartsIteration(s)
    /\ pc' = [pc EXCEPT ![s] = AfterLoopError]
    /\ UNCHANGED <<libVars, regVars, pmVars, should_exit, pending, setupRes, cleanups,
                   engine, audioVars>>

\* The sleep after a logged error ends: back to the test of the while loop.
ErrSleepDone(s) ==
    /\ pc[s] = "errsleep"
    /\ pc' = [pc EXCEPT ![s] = "idle"]
    /\ UNCHANGED <<libVars, regVars, pmVars, should_exit, pending, setupRes, cleanups,
                   engine, audioVars>>

\* The while loop ends on a set should_exit; finally: cleanup(); run() returns.
Exit(s) ==
    /\ s \in BaseStages
    /\ pc[s] = "idle"
    /\ should_exit[s]
    /\ pc' = [pc EXCEPT ![s] = "exited"]
    /\ cleanups' = [cleanups EXCEPT ![s] = @ + 1]
    /\ UNCHANGED <<libVars, regVars, pmVars, should_exit, pending, setupRes, engine,
                   audioVars>>

\* ------------------------------------------------------------ the overlay

\* OverlayProcess.run (it overrides ProcessBase.run): build the window and
\* the tray menu, start the worker thread, enter app.exec().  Neither
\* setup(), should_exit nor cleanup() is used.
OverlayRun ==
    /\ pc["OverlayUI"] = "started"
    /\ pc' = [pc EXCEPT !["OverlayUI"] = "gui"]
    /\ UNCHANGED <<libVars, regVars, pmVars, should_exit, pending, setupRes, cleanups,
                   engine, audioVars>>

\* OverlayWorker.run, one turn of "while self.running": receive a text and
\* emit it to the window (a timeout changes nothing).
OverlayWorker ==
    /\ pc["OverlayUI"] = "gui"
    /\ IF chans[overlay_input_queue].items = <<>>
       THEN UNCHANGED chans
       ELSE chans' = Receive(chans, overlay_input_queue)
    /\ UNCHANGED <<libVars, queues, ret, pmVars, stageVars, audioVars>>

\* The tray menu's Exit entry: app.quit, app.exec() returns, sys.exit.
OverlayQuit ==
    /\ pc["OverlayUI"] = "gui"
    /\ pc' = [pc EXCEPT !["OverlayUI"] = "exited"]
    /\ UNCHANGED <<libVars, regVars, pmVars, should_exit, pending, setupRes, cleanups,
                   engine, audioVars>>

\* OverlayProcess.toggle_start_stop, at most max times in a run: flip
\* is_running and send the command with put_nowait, any exception swallowed.
Toggle(max) ==
    /\ pc["OverlayUI"] = "gui"
    /\ toggles < max
    /\ toggles' = toggles + 1
    /\ is_running' = ~is_running
    /\ chans' = [chans EXCEPT ![overlay_audio_control_queue] =
                    put_nowait(@, IF ~is_running THEN "resume" ELSE "pause")]
    /\ UNCHANGED <<libVars, queues, ret, pmVars, stageVars, paused, nextFrame,
                   audio_buffer>>

\* The user clicking the tray menu's Start/Stop entry.
toggle_start_stop == Toggle(MaxToggles)

\* ------------------------------------------------------------ the capture

\* The PyAudio stream exists from a successful setup() to cleanup().
StreamOpen == setupRes["AudioCapture"] = "ok" /\ Alive("AudioCapture")

\* AudioCaptureProcess._audio_callback: while paused the frame is returned
\* untouched; else frame number nextFrame is sent with put_nowait, queue.Full
\* swallowed.  Frames are numbered in the order they are captured unpaused.
_audio_callback ==
    /\ StreamOpen
    /\ nextFrame <= MaxFrames
    /\ IF paused
       THEN UNCHANGED <<chans, nextFrame>>
       ELSE /\ nextFrame' = nextFrame + 1
            /\ chans' = [chans EXCEPT ![capture_audio_queue] =
                            put_nowait(@, nextFrame)]
    /\ UNCHANGED <<libVars, queues, ret, pmVars, stageVars, paused, is_running,
                   toggles, audio_buffer>>

\* --------------------------------------------------------- ProcessManager

\* ProcessManager.start_all: start every registered process.
start_all ==
    /\ pmPc = "init"
    /\ pmPc' = "monitor"
    /\ pc' = [s \in Procs |-> "started"]
    /\ UNCHANGED <<libVars, regVars, joinIdx, should_exit, pending, setupRes, cleanups,
                   engine, audioVars>>

\* The first loop of stop_all: process.stop() on every stage.
StopSignals(se) == [s \in Procs |-> TRUE]

\* ProcessManager.stop_all (run by main's signal handler) up to its first
\* join.
stop_all ==
    /\ pmPc = "monitor"
    /\ pmPc' = "join"
    /\ joinIdx' = 1
    /\ should_exit' = StopSignals(should_exit)
    /\ UNCHANGED <<libVars, regVars, pc, pending, setupRes, cleanups, engine,
                   audioVars>>

\* join(timeout=5.0) gives up on a stage that is still alive.  The grace
\* period is long against one iteration, so it runs out only on a stage
\* that is not on its way to the test of its while loop: the overlay in
\* app.exec(), or a stage inside a put() on a full channel.
GraceExpires(s) ==
    \/ pc[s] = "gui"
    \/ pc[s] = "put" /\ Full(chans[Head(pending[s])])

\* Mutant of AfterJoin: the straggler is not terminated.
AfterJoin_no_terminate(s) == pc[s]

\* "if process.is_alive(): process.terminate()" after the join.
AfterJoin(s) == IF Alive(s) THEN "terminated" ELSE pc[s]

\* stop_all, one turn of its second loop: the join returns because the
\* stage has ended or the grace period ran out; after the last stage,
\* QueueManager.cleanup() and stop_all returns.
JoinStep ==
    /\ pmPc = "join"
    /\ LET s == ProcOrder[joinIdx]
       IN /\ ~Alive(s) \/ GraceExpires(s)
          /\ pc' = [pc EXCEPT ![s] = AfterJoin(s)]
    /\ IF joinIdx < Len(ProcOrder)
       THEN /\ joinIdx' = joinIdx + 1
            /\ UNCHANGED <<pmPc, queues, chans>>
       ELSE /\ joinIdx' = 0
            /\ pmPc' = "done"
            /\ queues' = cleanup([queues |-> queues, chans |-> chans]).queues
            /\ chans' = cleanup([queues |-> queues, chans |-> chans]).chans
    /\ UNCHANGED <<libVars, ret, should_exit, pending, setupRes, cleanups, engine,
                   audioVars>>

Next ==
    \/ start_all
    \/ stop_all
    \/ JoinStep
    \/ \E s \in BaseStages : \E o \in {"ok", "raised", "stopped", "degraded"} :
          Setup(s, o)
    \/ CaptureLoop
    \/ AsrLoop
    \/ \E s \in {"Translation", "TTS"} : TextLoop(s)
    \/ \E s \in {"TranscriptWriter", "AudioPlayback"} : SinkLoop(s)
    \/ \E s \in {"ASR", "Translation", "TTS"} : \E ok \in BOOLEAN :
          InferReturn(s, ok)
    \/ \E s \in {"ASR", "Translation", "TTS"} : PutResume(s)
    \/ \E s \in RaisingLoops : LoopError(s)
    \/ \E s \in RaisingLoops : ErrSleepDone(s)
    \/ \E s \in BaseStages : Exit(s)
    \/ OverlayRun
    \/ OverlayWorker
    \/ OverlayQuit
    \/ toggle_start_stop
    \/ _audio_callback

Spec == Init /\ [][Next]_vars

\* ------------------------------------- the overlay and the capture on their own

\* Start/Stop clicks in a run of the overlay and the capture on their own.
MaxCommands == 3

\* The pipeline after start_all, once AudioCaptureProcess.setup() has opened
\* its stream and OverlayProcess.run has entered app.exec().
InitControl ==
    /\ queues = RMain.queues
    /\ chans = RMain.chans
    /\ ret = NoCall
    /\ pmPc = "monitor"
    /\ joinIdx = 0
    /\ pc = [s \in Procs |-> IF s = "AudioCapture" THEN "idle"
                             ELSE IF s = "OverlayUI" THEN "gui" ELSE "started"]
    /\ should_exit = [s \in Procs |-> FALSE]
    /\ pending = [s \in Procs |-> <<>>]
    /\ setupRes = [s \in Procs |-> IF s = "AudioCapture" THEN "ok" ELSE "none"]
    /\ cleanups = [s \in Procs |-> 0]
    /\ engine \in Engines
    /\ paused = TRUE
    /\ is_running = FALSE
    /\ nextFrame = 1
    /\ toggles = 0
    /\ audio_buffer = <<>>
    /\ LibInit

NextControl ==
    \/ Toggle(MaxCommands)
    \/ CaptureLoop
    \/ _audio_callback
    \/ LoopError("AudioCapture")
    \/ ErrSleepDone("AudioCapture")

SpecControl == InitControl /\ [][NextControl]_vars

\* ------------------------------------------------- the registry on its own

\* Names and capacities the registry is called with in SpecRegistry.
RegNames == {"audio_input", "asr_output"}
RegSizes == 1..2

\* Nothing created, started or called yet: the registry, the supervisor, the
\* stages and the stage-private components as their constructors leave them.
InitIdle ==
    /\ queues = EmptyFn
    /\ chans = <<>>
    /\ ret = NoCall
    /\ pmPc = "init"
    /\ joinIdx = 0
    /\ pc = [s \in Procs |-> "new"]
    /\ should_exit = [s \in Procs |-> FALSE]
    /\ pending = [s \in Procs |-> <<>>]
    /\ setupRes = [s \in Procs |-> "none"]
    /\ cleanups = [s \in Procs |-> 0]
    /\ paused = TRUE
    /\ is_running = FALSE
    /\ nextFrame = 1
    /\ toggles = 0
    /\ audio_buffer = <<>>
    /\ LibInit

\* QueueManager._queues before any call.
InitRegistry == InitIdle /\ engine = "marian"

\* A call of QueueManager.create_queue(name, maxsize).
CreateQueue(name, maxsize) ==
    LET R == create_queue([queues |-> queues, chans |-> chans], name, maxsize)
    IN /\ Len(R.chans) <= MaxChans
       /\ queues' = R.queues
       /\ chans' = R.chans
       /\ ret' = [op |-> "create", name |-> name, maxsize |-> maxsize,
                  existed |-> name \in DOMAIN queues, val |-> R.queues[name]]
       /\ UNCHANGED <<libVars, pmVars, stageVars, audioVars>>

\* A call of QueueManager.get_queue(name).
GetQueue(name) ==
    /\ ret' = [op |-> "get", name |-> name, maxsize |-> 0,
               existed |-> name \in DOMAIN queues,
               val |-> get_queue([queues |-> queues, chans |-> chans], name)]
    /\ UNCHANGED <<libVars, queues, chans, pmVars, stageVars, audioVars>>

\* The holder of a registered channel sends a message on it.
RegPut(name) ==
    /\ name \in DOMAIN queues
    /\ ~Full(chans[queues[name]])
    /\ chans' = [chans EXCEPT ![queues[name]] = put_nowait(@, Msg)]
    /\ ret' = [op |-> "put", name |-> name, maxsize |-> 0, existed |-> TRUE,
               val |-> queues[name]]
    /\ UNCHANGED <<libVars, queues, pmVars, stageVars, audioVars>>

\* A call of QueueManager.cleanup().
Cleanup ==
    /\ queues' = cleanup([queues |-> queues, chans |-> chans]).queues
    /\ chans' = cleanup([queues |-> queues, chans |-> chans]).chans
    /\ ret' = [op |-> "cleanup", name |-> "", maxsize |-> 0,
               existed |-> FALSE, val |-> None]
    /\ UNCHANGED <<libVars, pmVars, stageVars, audioVars>>

NextRegistry ==
    \/ \E name \in RegNames : \E maxsize \in RegSizes : CreateQueue(name, maxsize)
    \/ \E name \in RegNames : GetQueue(name)
    \/ \E name \in RegNames : RegPut(name)
    \/ Cleanup

SpecRegistry == InitRegistry /\ [][NextRegistry]_vars

\* ------------------------------------------ recognition: the utterance window

\* Frames one SpecWindow behaviour feeds the window when they differ in size.
MaxWindowFrames == 5
\* Frames one SpecWindow behaviour feeds the window when all are 100 ms long.
MaxEqualFrames == 42

\* "assuming 16kHz": the divisor in loop()'s duration computation.
SampleRate == 16000
min_duration_ms == 4000
max_duration_ms == 8000

\* Sizes, in samples, of the frames fed in: 100 ms (EqualLen), 1 s, 1.5 s,
\* 4.5 s (over min_duration_ms by itself) and 8.5 s (over max_duration_ms).
EqualLen == SampleRate \div 10
MixedLens == {16000, 24000, 72000, 136000}

\* chunk_duration = (len(chunk) / 16000) * 1000, exact for the sizes above.
chunk_duration(chunk) == (chunk.len * 1000) \div SampleRate

\* The number of samples in a list of frames.
RECURSIVE SumLen(_)
SumLen(buf) == IF buf = <<>> THEN 0 ELSE Head(buf).len + SumLen(Tail(buf))

\* np.concatenate(self.audio_buffer): one contiguous buffer, here the frames
\* it is made of, in order, and its number of samples.
concatenate(buf) == [frames |-> buf, len |-> SumLen(buf)]

\* Mutant of ReachedMin: the comparison is strict.
ReachedMin_strict(d) == d > min_duration_ms

\* "if self.buffer_duration_ms >= self.min_duration_ms"
ReachedMin(d) == d >= min_duration_ms

\* Mutant of _process_buffer: the buffer is not cleared after the flush.
_process_buffer_keeps(buf, d) ==
    [audio_buffer |-> buf, buffer_duration_ms |-> 0,
     out |-> IF buf = <<>> THEN <<>> ELSE <<concatenate(buf)>>]

\* NeMoASRProcess._process_buffer up to "Run inference": nothing on an empty
\* buffer; else concatenate, clear the buffer and its duration.  out is what
\* goes to inference.
_process_buffer(buf, d) ==
    IF buf = <<>>
    THEN [audio_buffer |-> buf, buffer_duration_ms |-> d, out |-> <<>>]
    ELSE [audio_buffer |-> <<>>, buffer_duration_ms |-> 0,
          out |-> <<concatenate(buf)>>]

\* Mutant of WindowLoop: the flush is decided and made before the new chunk
\* is in the buffer, and the chunk is lost with the cleared buffer.
WindowLoop_drops(buf, d, chunk) ==
    LET nd == d + chunk_duration(chunk)
    IN IF ReachedMin(nd) THEN _process_buffer(buf, nd)
       ELSE [audio_buffer |-> Append(buf, chunk), buffer_duration_ms |-> nd,
             out |-> <<>>]

\* NeMoASRProcess.loop on a received chunk: append, add its duration, flush
\* once the duration has reached min_duration_ms.  max_duration_ms is set in
\* __init__ and read nowhere.
WindowLoop(buf, d, chunk) ==
    LET b == Append(buf, chunk)
        nd == d + chunk_duration(chunk)
    IN IF ReachedMin(nd) THEN _process_buffer(b, nd)
       ELSE [audio_buffer |-> b, buffer_duration_ms |-> nd, out |-> <<>>]

\* Whether every frame of a list has the size EqualLen.
AllEqual(fs) == \A k \in 1..Len(fs) : fs[k].len = EqualLen

\* NeMoASRProcess after __init__, nothing else running.
InitWindow == InitRegistry

\* One loop() of the recognition stage that receives a frame of n samples
\* (frames are numbered in arrival order).
AsrFrame(n) ==
    /\ \/ n = EqualLen /\ AllEqual(dequeued) /\ Len(dequeued) < MaxEqualFrames
       \/ n \in MixedLens /\ Len(dequeued) < MaxWindowFrames
    /\ LET chunk == [id |-> Len(dequeued) + 1, len |-> n]
           r == WindowLoop(audio_buffer, buffer_duration_ms, chunk)
       IN /\ dequeued' = Append(dequeued, chunk)
          /\ audio_buffer' = r.audio_buffer
          /\ buffer_duration_ms' = r.buffer_duration_ms
          /\ utterances' = utterances \o r.out
    /\ UNCHANGED <<regVars, pmVars, stageVars, paused, is_running, nextFrame,
                   toggles, speakers, next_speaker_id, current_speaker_id,
                   stats, assigned, now, trVars, twVars>>

NextWindow == \E n \in MixedLens \cup {EqualLen} : AsrFrame(n)

SpecWindow == InitWindow /\ [][NextWindow]_vars

\* ------------------------------------------------- the speaker diarizer

\* SpeakerDiarizer's max_speakers (default 10) and speaker_timeout (default
\* 300 s), scaled down; CleanupEvery stands for the 50 identifications
\* between two purges.
max_speakers == 2
speaker_timeout == 1
CleanupEvery == 3
\* The last value of time.time() and the number of identify_speaker calls
\* in one SpecDiarizer behaviour.
MaxTime == 3
MaxCalls == 4

\* similarity_threshold (0.75) and cosine similarities are in thousandths;
\* min_duration is in seconds.
similarity_threshold == 750
min_duration == 1

\* Voice embeddings are unit vectors; here the 24 directions of a plane that
\* are 15 degrees apart, numbered 1..24 (None is not a direction).
Directions == 24
Embeddings == {24, 2, 3, 8}
\* Utterance sizes in samples: 0.75 s (under min_duration, over the 0.5 s
\* that _compute_embedding tests), 2 s, and 0.25 s.
ShortLen == (3 * SampleRate) \div 4
LongLen == 2 * SampleRate
TinyLen == SampleRate \div 4

\* The angle between two directions, in steps of 15 degrees (0..12).
AngDist(a, b) ==
    LET d == (a - b + Directions) % Directions
    IN IF d <= Directions - d THEN d ELSE Directions - d

\* 1000 * cos(15 * d degrees), rounded.
CosTable == <<966, 866, 707, 500, 259, 0, -259, -500, -707, -866, -966, -1000>>

\* sklearn's cosine_similarity of two embeddings.
cosine_similarity(a, b) ==
    IF AngDist(a, b) = 0 THEN 1000 ELSE CosTable[AngDist(a, b)]

\* _compute_embedding: None for audio under 0.5 s or when the encoder
\* raises (ok = FALSE), else the encoder's embedding of the audio.
_compute_embedding(audio, ok) ==
    IF 2 * audio.len < SampleRate \/ ~ok THEN None ELSE audio.emb

\* The tracked id with the highest similarity to embedding: the loop keeps
\* the first of equal similarities in dict order, which is increasing id.
BestMatch(spk, embedding) ==
    CHOOSE id \in DOMAIN spk :
        \A o \in DOMAIN spk :
            \/ cosine_similarity(embedding, spk[id].embedding)
                   > cosine_similarity(embedding, spk[o].embedding)
            \/ /\ cosine_similarity(embedding, spk[id].embedding)
                      = cosine_similarity(embedding, spk[o].embedding)
               /\ id <= o

\* SpeakerDiarizer._find_matching_speaker
_find_matching_speaker(spk, embedding) ==
    IF DOMAIN spk = {} THEN None
    ELSE IF cosine_similarity(embedding, spk[BestMatch(spk, embedding)].embedding)
               >= similarity_threshold
         THEN BestMatch(spk, embedding)
         ELSE None

\* The direction of normalize(0.3 * new + 0.7 * old): old turned towards new
\* by about 0.3 of the angle between them, to the nearest step (exact to the
\* step for the angles of a match, up to 30 degrees).
Ema(old, new) ==
    LET d == AngDist(old, new)
        shift == (3 * d + 5) \div 10
        fwd == ((new - old + Directions) % Directions) <= Directions \div 2
        a == IF fwd THEN old + shift ELSE old - shift + Directions
    IN ((a - 1) % Directions) + 1

\* Mutant of _update_speaker_embedding: last_seen is not refreshed.
_update_speaker_embedding_keeps_seen(spk, speaker_id, new_embedding, t) ==
    IF speaker_id \notin DOMAIN spk THEN spk
    ELSE [spk EXCEPT ![speaker_id] =
            [embedding |-> Ema(@.embedding, new_embedding),
             last_seen |-> @.last_seen,
             sample_count |-> @.sample_count + 1]]

\* SpeakerDiarizer._update_speaker_embedding
_update_speaker_embedding(spk, speaker_id, new_embedding, t) ==
    IF speaker_id \notin DOMAIN spk THEN spk
    ELSE [spk EXCEPT ![speaker_id] =
            [embedding |-> Ema(@.embedding, new_embedding),
             last_seen |-> t,
             sample_count |-> @.sample_count + 1]]

\* Mutant of _cleanup_inactive_speakers: a speaker last seen exactly
\* speaker_timeout ago is removed as well.
_cleanup_inactive_speakers_ge(spk, t) ==
    [id \in {k \in DOMAIN spk : ~(t - spk[k].last_seen >= speaker_timeout)}
        |-> spk[id]]

\* SpeakerDiarizer._cleanup_inactive_speakers
_cleanup_inactive_speakers(spk, t) ==
    [id \in {k \in DOMAIN spk : ~(t - spk[k].last_seen > speaker_timeout)}
        |-> spk[id]]

\* The diarizer's fields as one record D, for the operators below.
Diarizer ==
    [speakers |-> speakers, next_speaker_id |-> next_speaker_id,
     current_speaker_id |-> current_speaker_id, stats |-> stats]

\* The diarizer after a speaker with this id and embedding is stored.
WithNewSpeaker(D, speaker_id, embedding, t) ==
    [D |-> [D EXCEPT
              !.next_speaker_id = @ + 1,
              !.speakers = (speaker_id :> [embedding |-> embedding,
                                           last_seen |-> t,
                                           sample_count |-> 1]) @@ @,
              !.stats.new_speakers_detected = @ + 1],
     id |-> speaker_id]

\* Mutant of _create_new_speaker: the id is taken from the number of
\* tracked speakers instead of the counter.
_create_new_speaker_by_count(D, embedding, t) ==
    WithNewSpeaker(D, Cardinality(DOMAIN D.speakers) + 1, embedding, t)

\* SpeakerDiarizer._create_new_speaker: [D |-> the diarizer after it,
\* id |-> the id it returns], speaker_id = self.next_speaker_id.
_create_new_speaker(D, embedding, t) ==
    WithNewSpeaker(D, D.next_speaker_id, embedding, t)

\* identify_speaker from "Find matching speaker" to the id it settles on:
\* [D |-> the diarizer after it, id |-> the id].  At capacity the code is
\* "self._find_matching_speaker(embedding) or 1".
Assign(D, embedding, t) ==
    LET found == _find_matching_speaker(D.speakers, embedding)
        again == _find_matching_speaker(D.speakers, embedding)
    IN IF found = None
       THEN IF Cardinality(DOMAIN D.speakers) < max_speakers
            THEN _create_new_speaker(D, embedding, t)
            ELSE [D |-> D, id |-> IF again # None THEN again ELSE 1]
       ELSE [D |-> [D EXCEPT !.speakers =
                       _update_speaker_embedding(@, found, embedding, t)],
             id |-> found]

\* SpeakerDiarizer.identify_speaker at time t: [D |-> the diarizer after the
\* call, val |-> what it returns, embedding |-> the embedding it computed].
identify_speaker(D, audio, ok, t) ==
    LET embedding == _compute_embedding(audio, ok)
        a == Assign(D, embedding, t)
        speaker_id == a.id
        D1 == a.D
        D2 == IF speaker_id # D1.current_speaker_id
              THEN [D1 EXCEPT
                      !.stats.speaker_changes =
                          IF D1.current_speaker_id # None THEN @ + 1 ELSE @,
                      !.current_speaker_id = speaker_id]
              ELSE D1
        D3 == [D2 EXCEPT !.stats.total_identifications = @ + 1]
        D4 == IF D3.stats.total_identifications % CleanupEvery = 0
              THEN [D3 EXCEPT !.speakers = _cleanup_inactive_speakers(@, t)]
              ELSE D3
    IN IF embedding = None
       THEN [D |-> D, val |-> None, embedding |-> None]
       ELSE [D |-> D4, val |-> speaker_id, embedding |-> embedding]

\* SpeakerDiarizer after __init__, nothing else running.
InitDiarizer == InitRegistry

\* The utterances identify_speaker is called with: one of 2 s for each
\* embedding the encoder can produce, one of 0.75 s and one of 0.25 s.
Audios ==
    {[len |-> LongLen, emb |-> e] : e \in Embeddings}
        \cup {[len |-> ShortLen, emb |-> 24], [len |-> TinyLen, emb |-> 24]}

\* A call of identify_speaker(audio); ok: the encoder did not raise.
Identify(audio, ok) ==
    /\ stats.total_identifications < MaxCalls
    /\ LET r == identify_speaker(Diarizer, audio, ok, now)
       IN /\ speakers' = r.D.speakers
          /\ next_speaker_id' = r.D.next_speaker_id
          /\ current_speaker_id' = r.D.current_speaker_id
          /\ stats' = r.D.stats
          /\ assigned' = assigned \cup
                {<<id, r.D.stats.new_speakers_detected>> :
                    id \in IF r.D.stats.new_speakers_detected
                                # stats.new_speakers_detected
                           THEN {r.val} ELSE {}}
          /\ ret' = [op |-> "identify", len |-> audio.len,
                     embedding |-> r.embedding, val |-> r.val]
    /\ UNCHANGED <<queues, chans, pmVars, stageVars, audioVars,
                   buffer_duration_ms, utterances, dequeued, now,
                   trVars, twVars>>

\* A call of SpeakerDiarizer.reset().
Reset ==
    /\ speakers # EmptyFn
    /\ speakers' = EmptyFn
    /\ next_speaker_id' = 1
    /\ current_speaker_id' = None
    /\ ret' = [op |-> "reset", len |-> 0, embedding |-> None, val |-> None]
    /\ UNCHANGED <<queues, chans, pmVars, stageVars, audioVars,
                   buffer_duration_ms, utterances, dequeued, stats, assigned,
                   now, trVars, twVars>>

\* time.time() moves on by one second.
Tick ==
    /\ now < MaxTime
    /\ now' = now + 1
    /\ UNCHANGED <<regVars, pmVars, stageVars, audioVars, buffer_duration_ms,
                   utterances, dequeued, speakers, next_speaker_id,
                   current_speaker_id, stats, assigned, trVars, twVars>>

NextDiarizer ==
    \/ \E audio \in Audios : \E ok \in BOOLEAN : Identify(audio, ok)
    \/ Reset
    \/ Tick

SpecDiarizer == InitDiarizer /\ [][NextDiarizer]_vars

\* ---------------------------------------------- the context translator

\* ContextTranslator's cache max_size (default 1000), cache ttl (default
\* 3600 s) and context buffer_size (default 5), scaled down.
cache_max_size == 2
cache_ttl == 1
context_buffer_size == 2
\* Items the translator's loop translates in one SpecCache behaviour.
MaxTranslations == 2

\* The other settings of ContextTranslator.__init__, at their defaults.
max_context_length == 200
cache_enabled == TRUE
context_enabled == TRUE
include_source == TRUE
include_target == TRUE

\* The texts ASR sends, the blank ones loop() skips, the speaker ids that
\* come with them (None: a plain string or a dict without speaker), and
\* what translate_with_context can return for a text: the decoder may
\* produce nothing but special tokens, which decode to the empty string.
Texts == {"a", "b"}
Blank == {"", " "}
SpeakerIds == {None, 1}
Translations == {"", "x", "y"}

\* Recognized texts of 88 and 190 characters: with a translation of one
\* character the first makes an entry of the context string 100 characters
\* long, the second one of 202.
A8 == "aaaaaaaa"
A40 == A8 \o A8 \o A8 \o A8 \o A8
Text88 == A40 \o A40 \o A8
Text190 == A40 \o A40 \o A40 \o A40 \o A8 \o A8 \o A8 \o "aaaaaa"
LongTexts == {"a", Text88, Text190}

\* hashlib.md5(text.encode('utf-8')).hexdigest() on Texts, "c" and LongTexts.
Md5 == [a |-> "0cc175b9c0f1b6a831c399e269772661",
        b |-> "92eb5ffee6ae2fec3ad71c777531578f",
        c |-> "4a8a08f09d37b73795649038408b5f33"]
       @@ (Text88 :> "4efd6c8826e65a61f82af954d431b59b")
       @@ (Text190 :> "54d1e41ebac5db7886f01ab0afb65b17")
_hash_text(text) == Md5[text]

\* translation_cache is a dict, which keeps the order of insertion: the
\* list of its items, each with its key.  CacheIndex is the place of a key
\* (0: not in the dict), Without is del.
CacheIndex(cache, key) ==
    IF \E i \in 1..Len(cache) : cache[i].key = key
    THEN CHOOSE i \in 1..Len(cache) : cache[i].key = key
    ELSE 0
Without(s, i) == SubSeq(s, 1, i - 1) \o SubSeq(s, i + 1, Len(s))

\* The fields of the translator that the operators below read and write.
Translator ==
    [translation_cache |-> translation_cache, metrics |-> metrics,
     calls |-> calls, speaker_contexts |-> speaker_contexts,
     global_context_buffer |-> global_context_buffer,
     current_speaker_id |-> translator_speaker_id]

\* Mutant of _get_from_cache: an entry exactly cache_ttl old is still valid.
_get_from_cache_le(T, text, t) ==
    LET text_hash == _hash_text(text)
        i == CacheIndex(T.translation_cache, text_hash)
        miss == [T EXCEPT !.metrics.cache_misses = @ + 1]
    IN IF ~cache_enabled
       THEN [T |-> T, found |-> FALSE, translation |-> ""]
       ELSE IF i = 0
       THEN [T |-> miss, found |-> FALSE, translation |-> ""]
       ELSE IF t - T.translation_cache[i].timestamp <= cache_ttl
       THEN [T |-> [T EXCEPT !.metrics.cache_hits = @ + 1], found |-> TRUE,
             translation |-> T.translation_cache[i].translation]
       ELSE [T |-> [miss EXCEPT !.translation_cache = Without(@, i)],
             found |-> FALSE, translation |-> ""]

\* _get_from_cache(text) at time t: the Optional[str] it returns is found
\* (FALSE: None) and translation.
_get_from_cache(T, text, t) ==
    LET text_hash == _hash_text(text)
        i == CacheIndex(T.translation_cache, text_hash)
        miss == [T EXCEPT !.metrics.cache_misses = @ + 1]
    IN IF ~cache_enabled
       THEN [T |-> T, found |-> FALSE, translation |-> ""]
       ELSE IF i = 0
       THEN [T |-> miss, found |-> FALSE, translation |-> ""]
       ELSE IF t - T.translation_cache[i].timestamp < cache_ttl
       THEN [T |-> [T EXCEPT !.metrics.cache_hits = @ + 1], found |-> TRUE,
             translation |-> T.translation_cache[i].translation]
       ELSE [T |-> [miss EXCEPT !.translation_cache = Without(@, i)],
             found |-> FALSE, translation |-> ""]

\* "if cached_translation:", Python's truth value of an Optional[str].
Truthy(g) == g.found /\ g.translation # ""

\* sorted(items, key=timestamp)[:n] removed: sorted is stable, so among
\* equal timestamps the item inserted first goes first.
RECURSIVE RemoveOldest(_, _)
RemoveOldest(cache, n) ==
    IF n = 0 \/ cache = <<>> THEN cache
    ELSE LET i == CHOOSE k \in 1..Len(cache) :
                     /\ \A j \in 1..Len(cache) :
                           cache[k].timestamp <= cache[j].timestamp
                     /\ \A j \in 1..(k - 1) :
                           cache[j].timestamp > cache[k].timestamp
         IN RemoveOldest(Without(cache, i), n - 1)

\* Mutant of _add_to_cache: entries are evicted only once the cache holds
\* more than cache_max_size of them.
_add_to_cache_gt(cache, text, translation, t) ==
    LET num_to_remove ==
            IF cache_max_size \div 10 > 1 THEN cache_max_size \div 10 ELSE 1
        kept == IF Len(cache) > cache_max_size
                THEN RemoveOldest(cache, num_to_remove) ELSE cache
        text_hash == _hash_text(text)
        i == CacheIndex(kept, text_hash)
        item == [key |-> text_hash, translation |-> translation,
                 timestamp |-> t]
    IN IF ~cache_enabled THEN cache
       ELSE IF i = 0 THEN Append(kept, item)
       ELSE [kept EXCEPT ![i] = item]

\* _add_to_cache(text, translation) at time t; assigning to a key the dict
\* holds keeps the key's place.
_add_to_cache(cache, text, translation, t) ==
    LET num_to_remove ==
            IF cache_max_size \div 10 > 1 THEN cache_max_size \div 10 ELSE 1
        kept == IF Len(cache) >= cache_max_size
                THEN RemoveOldest(cache, num_to_remove) ELSE cache
        text_hash == _hash_text(text)
        i == CacheIndex(kept, text_hash)
        item == [key |-> text_hash, translation |-> translation,
                 timestamp |-> t]
    IN IF ~cache_enabled THEN cache
       ELSE IF i = 0 THEN Append(kept, item)
       ELSE [kept EXCEPT ![i] = item]

\* _get_speaker_context_buffer(speaker_id): the shared buffer for None,
\* else the speaker's own, created empty on first use.
_get_speaker_context_buffer(T, speaker_id) ==
    IF speaker_id = None
    THEN [T |-> T, buf |-> T.global_context_buffer]
    ELSE IF speaker_id \in DOMAIN T.speaker_contexts
    THEN [T |-> T, buf |-> T.speaker_contexts[speaker_id]]
    ELSE [T |-> [T EXCEPT !.speaker_contexts = @ @@ (speaker_id :> <<>>)],
          buf |-> <<>>]

\* One entry of the buffer as it appears in the context string.
ContextPart(e) ==
    LET src == IF include_source THEN "EN: " \o e.source ELSE ""
        sep == IF include_target /\ src # "" THEN " | " ELSE ""
        tgt == IF include_target THEN "VI: " \o e.target ELSE ""
    IN src \o sep \o tgt

\* The parts of entries i, i-1, ... that fit into max_context_length,
\* oldest first, total_length being the length of those already taken.
RECURSIVE ContextParts(_, _, _)
\* Mutant of ContextParts: an entry that does not fit is skipped and the
\* walk goes on to the older ones.
ContextParts_skipping(buf, i, total_length) ==
    IF i = 0 THEN <<>>
    ELSE LET part == ContextPart(buf[i])
         IN IF total_length + Len(part) > max_context_length
            THEN ContextParts(buf, i - 1, total_length)
            ELSE Append(ContextParts(buf, i - 1, total_length + Len(part)),
                        part)

ContextParts(buf, i, total_length) ==
    IF i = 0 THEN <<>>
    ELSE LET part == ContextPart(buf[i])
         IN IF total_length + Len(part) > max_context_length THEN <<>>
            ELSE Append(ContextParts(buf, i - 1, total_length + Len(part)),
                        part)

\* " || ".join(parts)
RECURSIVE JoinParts(_)
JoinParts(parts) ==
    IF parts = <<>> THEN ""
    ELSE IF Len(parts) = 1 THEN parts[1]
    ELSE parts[1] \o " || " \o JoinParts(Tail(parts))

\* _build_context_string(speaker_id)
_build_context_string(T, speaker_id) ==
    IF ~context_enabled THEN [T |-> T, context |-> ""]
    ELSE LET b == _get_speaker_context_buffer(T, speaker_id)
         IN [T |-> b.T,
             context |-> JoinParts(ContextParts(b.buf, Len(b.buf), 0))]

\* Mutant of DequeAppend: a deque without maxlen.
DequeAppend_unbounded(buf, e) == Append(buf, e)

\* deque(maxlen=context_buffer_size).append
DequeAppend(buf, e) ==
    IF Len(buf) >= context_buffer_size THEN Append(Tail(buf), e)
    ELSE Append(buf, e)

\* Mutant of _add_to_context: the pair goes to the shared buffer whatever
\* the speaker.
_add_to_context_shared(T, source, target, speaker_id, t) ==
    IF ~context_enabled THEN T
    ELSE LET b == _get_speaker_context_buffer(T, speaker_id)
             buf == DequeAppend(T.global_context_buffer,
                                [source |-> source, target |-> target,
                                 timestamp |-> t])
         IN [b.T EXCEPT !.global_context_buffer = buf]

\* _add_to_context(source, target, speaker_id) at time t
_add_to_context(T, source, target, speaker_id, t) ==
    IF ~context_enabled THEN T
    ELSE LET b == _get_speaker_context_buffer(T, speaker_id)
             buf == DequeAppend(b.buf, [source |-> source, target |-> target,
                                        timestamp |-> t])
         IN IF speaker_id = None
            THEN [b.T EXCEPT !.global_context_buffer = buf]
            ELSE [b.T EXCEPT !.speaker_contexts[speaker_id] = buf]

\* What the translation model or API does when it is called on a text: it
\* returns a translation or raises.
Outcomes ==
    {[raised |-> FALSE, translated |-> tr] : tr \in Translations}
        \cup {[raised |-> TRUE, translated |-> ""]}

\* Mutant of translate_with_context: every engine returns the text itself
\* when the model or API has failed.
translate_with_context_fallback(text, out) ==
    IF out.raised
    THEN [raised |-> FALSE, translated |-> text]
    ELSE out

\* translate_with_context(text) of the engine's class, out being what the
\* model or API did.  MarianTranslatorProcess and NLLBTranslatorProcess let
\* an exception out; GoogleTranslatorProcess._translate_text returns the
\* text itself once its attempts have all failed.
translate_with_context(text, out) ==
    IF engine = "google" /\ out.raised
    THEN [raised |-> FALSE, translated |-> text]
    ELSE out

\* One pass of ContextTranslator.loop over the item input_data at time t,
\* out being what the model or API does should translate_with_context be
\* invoked; an exception that leaves translate_with_context is caught and
\* logged by the loop's own except clause.
\* emitted: the pass put an output on tts_input and ui_input.  The
\* subclasses' translate_with_context calls _build_context_string() with no
\* speaker.
loop(T, input_data, out, t) ==
    LET text == input_data.text
        speaker_id == input_data.speaker_id
        T1 == [T EXCEPT !.current_speaker_id = speaker_id,
                        !.metrics.total_translations = @ + 1]
        g == _get_from_cache(T1, text, t)
        b == _build_context_string(g.T, speaker_id)
        counter == IF Len(b.context) > 0 THEN "with_context"
                   ELSE "without_context"
        T2 == [b.T EXCEPT !.metrics[counter] = @ + 1]
        sub == _build_context_string(T2, None)
        T3 == [sub.T EXCEPT
                 !.calls = Append(@, [text |-> text,
                                      context |-> sub.context,
                                      failed |-> out.raised])]
        res == translate_with_context(text, out)
        T4 == [T3 EXCEPT !.translation_cache =
                             _add_to_cache(@, text, res.translated, t)]
    IN IF text \in Blank
       THEN [T |-> T, emitted |-> FALSE, translated |-> "",
             cached |-> FALSE]
       ELSE IF Truthy(g)
       THEN [T |-> _add_to_context(g.T, text, g.translation, speaker_id, t),
             emitted |-> TRUE, translated |-> g.translation,
             cached |-> TRUE]
       ELSE IF res.raised
       THEN [T |-> T3, emitted |-> FALSE, translated |-> "",
             cached |-> FALSE]
       ELSE [T |-> _add_to_context(T4, text, res.translated, speaker_id, t),
             emitted |-> TRUE, translated |-> res.translated,
             cached |-> FALSE]

InitCache == InitRegistry

\* The items the loop takes from asr_output.
Inputs == [text : Texts \cup Blank, speaker_id : SpeakerIds]

\* loop() with an item on asr_output, up to the n-th translation.
TranslateStep(input_data, out, n) ==
    /\ metrics.total_translations < n
    /\ LET r == loop(Translator, input_data, out, now)
       IN /\ translation_cache' = r.T.translation_cache
          /\ metrics' = r.T.metrics
          /\ calls' = r.T.calls
          /\ speaker_contexts' = r.T.speaker_contexts
          /\ global_context_buffer' = r.T.global_context_buffer
          /\ translator_speaker_id' = r.T.current_speaker_id
          /\ ret' = [op |-> "translate", text |-> input_data.text,
                     speaker_id |-> input_data.speaker_id,
                     emitted |-> r.emitted, translated |-> r.translated,
                     cached |-> r.cached]
    /\ UNCHANGED <<queues, chans, pmVars, stageVars, audioVars,
                   buffer_duration_ms, utterances, dequeued, speakers,
                   next_speaker_id, current_speaker_id, stats, assigned,
                   now, twVars>>

Translate(input_data, out) ==
    TranslateStep(input_data, out, MaxTranslations)

NextCache ==
    \/ \E input_data \in Inputs : \E out \in Outcomes :
          Translate(input_data, out)
    \/ Tick

SpecCache == InitCache /\ [][NextCache]_vars

\* The same loop fed with one more text and no speaker ids, for one
\* translation more: what it takes to fill the cache and insert again.
Insert(text, out) ==
    TranslateStep([text |-> text, speaker_id |-> None], out,
                  MaxTranslations + 1)

\* One translation, the empty translation and the failure are enough here.
EvictOutcomes == {out \in Outcomes : out.translated # "y"}

NextEvict ==
    \/ \E text \in Texts \cup {"c"} : \E out \in EvictOutcomes :
          Insert(text, out)
    \/ Tick

SpecEvict == InitCache /\ [][NextEvict]_vars

\* The same loop under each engine, fed with the texts of two speakers and
\* of none, all at one time.
InitContext == InitIdle /\ engine \in Engines

MaxContextCalls == 3

Say(input_data, out) == TranslateStep(input_data, out, MaxContextCalls)

NextContext ==
    \E input_data \in [text : Texts, speaker_id : SpeakerIds \cup {2}] :
        \E out \in Outcomes : Say(input_data, out)

SpecContext == InitContext /\ [][NextContext]_vars

\* The same loop fed with texts long enough for max_context_length to
\* matter, without speaker ids.
SayLong(text, out) ==
    TranslateStep([text |-> text, speaker_id |-> None], out, MaxContextCalls)

NextLength == \E text \in LongTexts : \E out \in Outcomes : SayLong(text, out)

SpecLength == InitCache /\ [][NextLength]_vars

\* ------------------------------------------------------------------ claims

\* C8: create(name, capacity) on a name that is already registered returns
\* the registered channel and changes neither the registry nor any channel
\* (its capacity, its queued messages), whatever capacity is passed.
C8_CreateIdempotent ==
    [][ (ret'.op = "create" /\ ret'.name \in DOMAIN queues)
            => /\ ret'.val = queues[ret'.name]
               /\ queues' = queues
               /\ chans' = chans ]_vars

\* C8 witness: create was called on an existing name with another capacity
\* while the channel held a message.
C8_Witness ==
    /\ ret.op = "create"
    /\ ret.existed
    /\ chans[ret.val].maxsize # ret.maxsize
    /\ chans[ret.val].items # <<>>

\* C9: get(name) for a name that is not registered (never created, or
\* looked up after cleanup) fails; it never returns a null value.
C9_GetAbsentFails ==
    (ret.op = "get" /\ ~ret.existed) => ret.val # None

\* C1: once the stop signal is set every stage leaves by itself: no stage
\* is ever force-terminated by stop_all (collaborator calls return, and the
\* grace period runs out only on a stage that is not heading for the test
\* of its stop signal).
C1_NoForceTermination ==
    \A s \in Procs : pc[s] # "terminated"

\* C2: no stage is ever suspended in a send without bound: it is never
\* inside put() on a full channel whose consumer has ended.
C2_NoUnboundedSend ==
    \A s \in Procs :
        ~(/\ pc[s] = "put"
          /\ Full(chans[Head(pending[s])])
          /\ ~Alive(Consumer(Head(pending[s]))))

\* C3: while stop_all waits, every stage's stop signal is already set and
\* every stage it has finished waiting for has ended (by itself or by
\* terminate); stages are terminated by stop_all only; when stop_all has
\* returned no stage is running and the registry is empty.
C3_StopAll ==
    /\ pmPc \in {"join", "done"} => \A s \in Procs : should_exit[s]
    /\ pmPc = "join" => \A i \in 1..(joinIdx - 1) : ~Alive(ProcOrder[i])
    /\ \A s \in Procs : pc[s] = "terminated" => pmPc \in {"join", "done"}
    /\ pmPc = "done" => /\ \A s \in Procs : ~Alive(s)
                        /\ DOMAIN queues = {}

\* C3 witness: stop_all has returned after one stage ended by itself, with
\* its cleanup run, and another had to be terminated.
C3_Witness ==
    /\ pmPc = "done"
    /\ \E s \in Procs : pc[s] = "terminated"
    /\ \E s \in Procs : pc[s] = "exited" /\ cleanups[s] = 1 /\ setupRes[s] = "ok"

\* C4: a stage whose stop signal is set starts no new processing iteration
\* (it receives no further message from its input channel, which is how an
\* iteration begins), and when it has ended its cleanup has run exactly once.
C4_NoIterationAfterStop ==
    /\ [][\A s \in Procs :
            LET c == IF s = "AudioCapture" THEN capture_control_queue
                     ELSE InputQueue(s)
            IN should_exit[s] => Len(chans'[c].items) >= Len(chans[c].items)]_vars
    /\ [](\A s \in Procs : (should_exit[s] /\ pc[s] = "exited") => cleanups[s] = 1)

\* C5: an error inside one iteration does not end the stage: a stage that is
\* inside its loop ends only when its stop signal is set; after a logged
\* error it goes back to the test of its loop; and the step in which the
\* error is raised changes no other stage and no channel.
C5_LoopErrorIsolated ==
    /\ [][\A s \in BaseStages :
            (pc[s] \in {"idle", "errsleep", "infer", "put"} /\ pc'[s] = "exited")
                => should_exit[s]]_vars
    /\ [][\A s \in BaseStages :
            pc[s] = "errsleep" => pc'[s] \in {"errsleep", "idle"}]_vars
    /\ [][\A s \in BaseStages :
            (pc[s] = "idle" /\ pc'[s] \notin {"idle", "infer", "put", "exited"})
                => /\ \A t \in Procs \ {s} :
                        pc'[t] = pc[t] /\ should_exit'[t] = should_exit[t]
                   /\ should_exit'[s] = should_exit[s]
                   /\ chans' = chans /\ pending' = pending]_vars

\* C5 witness: a stage is in the pause that follows a logged error, not
\* asked to stop, while another stage is in the middle of an iteration.
C5_Witness ==
    /\ pc["AudioCapture"] = "errsleep"
    /\ ~should_exit["AudioCapture"]
    /\ pc["ASR"] = "infer"

\* C6: a stage whose setup raised has ended without entering its loop, with
\* its cleanup run once, and the step in which it failed changed no other
\* stage.
C6_SetupRaiseFatalToStageOnly ==
    /\ [](\A s \in Procs :
            setupRes[s] = "raised" => pc[s] = "exited" /\ cleanups[s] = 1)
    /\ [][\A s \in Procs :
            (setupRes[s] = "none" /\ setupRes'[s] = "raised")
                => \A t \in Procs \ {s} :
                        pc'[t] = pc[t] /\ should_exit'[t] = should_exit[t]]_vars

\* C6 witness: the playback stage's setup raised (without stop() being
\* called) and the recognition stage is in the middle of an iteration.
C6_Witness ==
    /\ setupRes["AudioPlayback"] = "raised"
    /\ ~should_exit["AudioPlayback"]
    /\ pc["ASR"] = "infer"

\* C7: a stage whose collaborator failed to load during setup processes no
\* input afterwards: it is never in the middle of an iteration that has
\* received a message.
C7_NoInputAfterSetupFailure ==
    \A s \in Procs :
        setupRes[s] \in {"raised", "stopped", "degraded"}
            => pc[s] \notin {"infer", "put"}

\* C10: when capture produces a frame while the audio-in channel is full,
\* the oldest queued frame is discarded and the new frame is enqueued.
C10_DropOldest ==
    [][ (nextFrame' = nextFrame + 1 /\ Full(chans[capture_audio_queue]))
            => chans'[capture_audio_queue].items =
                   Append(Tail(chans[capture_audio_queue].items), nextFrame) ]_vars

\* C11: a frame's arrival flushes the window exactly when the durations of
\* the frames in the open window, with the new one, reach min_duration_ms;
\* the utterance is then all frames received since the previous flush, in
\* arrival order, and the window is left with no frame and zero duration;
\* the open window is never at or over min_duration_ms; and with equal
\* frames of which 40 reach min_duration_ms an utterance is emitted after
\* every 40th frame, the first made of frames 1..40.
C11_FlushAtMin ==
    /\ [][Len(dequeued') = Len(dequeued) + 1 =>
            LET f == dequeued'[Len(dequeued')]
                open == Append(audio_buffer, f)
                reached == (SumLen(open) * 1000) \div SampleRate >= min_duration_ms
            IN /\ reached <=> Len(utterances') = Len(utterances) + 1
               /\ ~reached => utterances' = utterances /\ audio_buffer' = open
               /\ reached => /\ utterances'[Len(utterances')].frames = open
                             /\ audio_buffer' = <<>>
                             /\ buffer_duration_ms' = 0]_vars
    /\ []((SumLen(audio_buffer) * 1000) \div SampleRate < min_duration_ms)
    /\ [](AllEqual(dequeued) =>
            /\ Len(utterances) = Len(dequeued) \div 40
            /\ Len(dequeued) >= 40 => utterances[1].frames = SubSeq(dequeued, 1, 40))

\* C11 witness: 40 equal frames have arrived and exactly one utterance has
\* been emitted, leaving the window empty.
C11_Witness ==
    /\ AllEqual(dequeued) /\ Len(dequeued) = 40
    /\ Len(utterances) = 1
    /\ audio_buffer = <<>>

\* C12: no emitted utterance is longer than max_duration_ms plus the
\* duration of one frame (its last one).
C12_UtteranceBounded ==
    \A k \in 1..Len(utterances) :
        LET u == utterances[k]
            last == u.frames[Len(u.frames)]
        IN (u.len * 1000) \div SampleRate
              <= max_duration_ms + (last.len * 1000) \div SampleRate

\* C12 witness: an utterance of several frames is longer than
\* max_duration_ms.
C12_Witness ==
    \E k \in 1..Len(utterances) :
        /\ (utterances[k].len * 1000) \div SampleRate > max_duration_ms
        /\ Len(utterances[k].frames) > 1

\* C13: the frames of the emitted utterances, in order, followed by the
\* frames of the open window are exactly the frames dequeued: none dropped,
\* none duplicated; so the emitted samples never exceed the samples received.
C13_NoFrameLostOrDuplicated ==
    LET RECURSIVE Flat(_)
        Flat(us) == IF us = <<>> THEN <<>>
                    ELSE Head(us).frames \o Flat(Tail(us))
        RECURSIVE Total(_)
        Total(us) == IF us = <<>> THEN 0 ELSE Head(us).len + Total(Tail(us))
    IN /\ Flat(utterances) \o audio_buffer = dequeued
       /\ Total(utterances) <= SumLen(dequeued)

\* C13 witness: two utterances have been emitted and the window is open
\* again with a frame in it.
C13_Witness ==
    /\ Len(utterances) >= 2
    /\ audio_buffer # <<>>

C15_ReidentifySameId ==
    [][(/\ ret.op = "identify" /\ ret.val # None
        /\ ret.len >= min_duration * SampleRate
        /\ ret'.op = "identify" /\ now' = now
        /\ ret'.len >= min_duration * SampleRate
        /\ stats'.total_identifications = stats.total_identifications + 1
        /\ \/ ret'.embedding = ret.embedding
           \/ /\ ret.val \in DOMAIN speakers
              /\ cosine_similarity(ret'.embedding, speakers[ret.val].embedding)
                    >= similarity_threshold)
        => /\ ret'.val = ret.val
           /\ next_speaker_id' = next_speaker_id
           /\ DOMAIN speakers' \subseteq DOMAIN speakers]_vars

\* C16: an identify call whose embedding is under similarity_threshold
\* against every tracked identity, with fewer than max_speakers tracked,
\* creates one identity and returns its id, which is greater than every id
\* tracked before the call.
C16_NewIdGreater ==
    [][(/\ ret'.op = "identify" /\ now' = now
        /\ stats'.total_identifications = stats.total_identifications + 1
        /\ \A id \in DOMAIN speakers :
              cosine_similarity(ret'.embedding, speakers[id].embedding)
                  < similarity_threshold
        /\ Cardinality(DOMAIN speakers) < max_speakers)
        => /\ ret'.val \notin DOMAIN speakers
           /\ \A id \in DOMAIN speakers : ret'.val > id
           /\ ret'.val \in DOMAIN speakers'
           /\ speakers'[ret'.val].embedding = ret'.embedding
           /\ stats'.new_speakers_detected = stats.new_speakers_detected + 1
       ]_vars

\* C16 witness: after speaker 1 was purged, a call that matched no tracked
\* identity has created speaker 3 next to speaker 2.
C16_Witness ==
    /\ ret.op = "identify" /\ ret.val = 3
    /\ DOMAIN speakers = {2, 3}
    /\ speakers[3].sample_count = 1 /\ speakers[3].last_seen = now

\* C17: an id that was given to one identity is never given to another:
\* no two identities ever created share their id.
C17_IdsNeverReused ==
    \A p \in assigned : \A q \in assigned : p[1] = q[1] => p[2] = q[2]

\* C18: an identify call on an utterance of at least min_duration whose
\* embedding is under similarity_threshold
\* against every tracked identity, with max_speakers identities tracked,
\* returns the id of a tracked identity of highest similarity to it.
C18_FallbackBestMatch ==
    [][(/\ ret'.op = "identify" /\ now' = now
        /\ ret'.len >= min_duration * SampleRate
        /\ stats'.total_identifications = stats.total_identifications + 1
        /\ \A id \in DOMAIN speakers :
              cosine_similarity(ret'.embedding, speakers[id].embedding)
                  < similarity_threshold
        /\ Cardinality(DOMAIN speakers) >= max_speakers)
        => /\ ret'.val \in DOMAIN speakers
           /\ \A o \in DOMAIN speakers :
                 cosine_similarity(ret'.embedding, speakers[ret'.val].embedding)
                     >= cosine_similarity(ret'.embedding, speakers[o].embedding)
       ]_vars

\* C19: translating a text whose translation is in the cache, younger than
\* cache_ttl, emits that very translation, does not invoke
\* translate_with_context, and counts one cache hit and no cache miss.
C19_CacheIdempotent ==
    [][\A i \in 1..Len(translation_cache) :
          (/\ ret'.op = "translate" /\ now' = now
           /\ metrics'.total_translations = metrics.total_translations + 1
           /\ translation_cache[i].key = _hash_text(ret'.text)
           /\ now - translation_cache[i].timestamp < cache_ttl)
          => /\ ret'.emitted
             /\ ret'.translated = translation_cache[i].translation
             /\ calls' = calls
             /\ metrics'.cache_hits = metrics.cache_hits + 1
             /\ metrics'.cache_misses = metrics.cache_misses]_vars

\* C20: the lookup a translation starts with counts a hit if and only if
\* the cache holds an entry for the text that is not older than cache_ttl,
\* and a miss otherwise; an entry older than cache_ttl is no longer in the
\* cache after the call.
C20_HitIffNotOlderThanTtl ==
    [][(/\ ret'.op = "translate" /\ now' = now
        /\ metrics'.total_translations = metrics.total_translations + 1)
        => LET i == CacheIndex(translation_cache, _hash_text(ret'.text))
               valid == i # 0 /\ now - translation_cache[i].timestamp
                                    <= cache_ttl
           IN /\ valid <=> metrics'.cache_hits = metrics.cache_hits + 1
              /\ ~valid <=> metrics'.cache_misses = metrics.cache_misses + 1
              /\ (i # 0 /\ ~valid)
                    => \A j \in 1..Len(translation_cache') :
                          translation_cache'[j] # translation_cache[i]
       ]_vars

\* C20 as the code has it: the lookup counts a hit if and only if the cache
\* holds an entry for the text that is younger than cache_ttl, and a miss
\* otherwise; an entry that has reached the age cache_ttl is no longer in
\* the cache after the call.
C20_HitIffYoungerThanTtl ==
    [][(/\ ret'.op = "translate" /\ now' = now
        /\ metrics'.total_translations = metrics.total_translations + 1)
        => LET i == CacheIndex(translation_cache, _hash_text(ret'.text))
               valid == i # 0 /\ now - translation_cache[i].timestamp
                                    < cache_ttl
           IN /\ valid <=> metrics'.cache_hits = metrics.cache_hits + 1
              /\ ~valid <=> metrics'.cache_misses = metrics.cache_misses + 1
              /\ (i # 0 /\ ~valid)
                    => \A j \in 1..Len(translation_cache') :
                          translation_cache'[j] # translation_cache[i]
       ]_vars

\* C20 witness: a text translated and cached at time 0 was looked up again
\* when its entry was exactly cache_ttl old; the lookup counted a miss and
\* removed the entry, and the translation that followed raised, so that the
\* cache is empty.
C20_Witness ==
    /\ ret.op = "translate" /\ ~ret.emitted /\ ret.text \in Texts
    /\ ret.speaker_id = None
    /\ now = cache_ttl
    /\ metrics.total_translations = 2
    /\ metrics.cache_misses = 2 /\ metrics.cache_hits = 0
    /\ Len(global_context_buffer) = 1
    /\ global_context_buffer[1].source = ret.text
    /\ global_context_buffer[1].timestamp = 0
    /\ translation_cache = <<>>

\* ------------------------------------------------- the transcript writer

\* transcription.include_original and transcription.merge_segments
include_original == TRUE
merge_segments == TRUE

\* In the transcript writer's specifications now counts intervals of 0.5 s,
\* the timeout of input_queue.get; writer_speaker_timeout is the writer's
\* speaker_timeout in these intervals (1.0 s in test_transcript_writer.py).
writer_speaker_timeout == 2
\* Messages the writer receives and intervals that pass in one behaviour.
MaxInputs == 3
MaxWriterTime == 5

\* The messages the translator puts on transcript_input: the translation
\* (which may be empty), the recognized text and the speaker; their
\* timestamp is the number of the message.
Pairs == {[text |-> "x", original |-> "a"], [text |-> "y", original |-> "b"],
          [text |-> "", original |-> "a"]}
WriterSpeakers == {None, 1}

Writer ==
    [enabled |-> enabled, file_handle |-> file_handle,
     transcript |-> transcript, current_buffer |-> current_buffer]

\* " ".join(parts)
RECURSIVE JoinSpace(_)
JoinSpace(parts) ==
    IF parts = <<>> THEN ""
    ELSE IF Len(parts) = 1 THEN parts[1]
    ELSE parts[1] \o " " \o JoinSpace(Tail(parts))

\* The line _write_entry formats: time_str is kept as the timestamp, the
\* second line "(Orig: ...)" as the field original, "" if it is not written.
Entry(speaker_id, text, original, timestamp) ==
    [kind |-> "entry", time |-> timestamp,
     speaker |-> IF speaker_id # None
                 THEN "[Speaker " \o ToString(speaker_id) \o "]"
                 ELSE "[Unknown]",
     text |-> text,
     original |-> IF include_original /\ original # "" THEN original ELSE ""]

Header == [kind |-> "header", time |-> 0, speaker |-> "", text |-> "",
           original |-> ""]
Footer == [kind |-> "footer", time |-> 0, speaker |-> "", text |-> "",
           original |-> ""]

\* _write_entry(speaker_id, text, original, timestamp); a write to a closed
\* file raises and is logged.
_write_entry(W, speaker_id, text, original, timestamp) ==
    IF W.file_handle # "open" THEN W
    ELSE [W EXCEPT !.transcript =
                      Append(@, Entry(speaker_id, text, original, timestamp))]

\* Mutant of _flush_buffer: the accumulator is written but not cleared.
_flush_buffer_keeps(W) ==
    IF W.current_buffer = <<>> THEN W
    ELSE LET b == W.current_buffer[1]
         IN _write_entry(W, b.speaker_id, JoinSpace(b.text_parts),
                         JoinSpace(b.original_parts), b.start_time)

\* _flush_buffer()
_flush_buffer(W) ==
    IF W.current_buffer = <<>> THEN W
    ELSE LET b == W.current_buffer[1]
             W1 == _write_entry(W, b.speaker_id, JoinSpace(b.text_parts),
                                JoinSpace(b.original_parts), b.start_time)
         IN [W1 EXCEPT !.current_buffer = <<>>]

\* Mutant of _process_data: a change of speaker does not flush.
_process_data_merging(W, data, t) ==
    IF data.text = "" THEN W
    ELSE IF ~merge_segments
    THEN _write_entry(W, data.speaker_id, data.text, data.original,
                      data.timestamp)
    ELSE LET b0 == IF W.current_buffer = <<>>
                   THEN [speaker_id |-> data.speaker_id, text_parts |-> <<>>,
                         original_parts |-> <<>>,
                         start_time |-> data.timestamp, last_update |-> t]
                   ELSE W.current_buffer[1]
             b1 == [b0 EXCEPT
                       !.text_parts = Append(@, data.text),
                       !.original_parts = IF data.original # ""
                                          THEN Append(@, data.original)
                                          ELSE @,
                       !.last_update = t]
         IN [W EXCEPT !.current_buffer = <<b1>>]

\* _process_data(data) at time t
_process_data(W, data, t) ==
    IF data.text = "" THEN W
    ELSE IF ~merge_segments
    THEN _write_entry(W, data.speaker_id, data.text, data.original,
                      data.timestamp)
    ELSE LET W1 == IF /\ W.current_buffer # <<>>
                      /\ W.current_buffer[1].speaker_id # data.speaker_id
                   THEN _flush_buffer(W) ELSE W
             b0 == IF W1.current_buffer = <<>>
                   THEN [speaker_id |-> data.speaker_id, text_parts |-> <<>>,
                         original_parts |-> <<>>,
                         start_time |-> data.timestamp, last_update |-> t]
                   ELSE W1.current_buffer[1]
             b1 == [b0 EXCEPT
                       !.text_parts = Append(@, data.text),
                       !.original_parts = IF data.original # ""
                                          THEN Append(@, data.original)
                                          ELSE @,
                       !.last_update = t]
         IN [W1 EXCEPT !.current_buffer = <<b1>>]

\* Mutant of transcript_loop: the accumulator's age is not looked at.
transcript_loop_unchecked(W, got, data, t0, t1) ==
    IF got THEN _process_data(W, data, t1) ELSE W

\* TranscriptWriterProcess.loop() with enabled set: the timeout check at
\* time t0, then input_queue.get, which returns data at time t1 (got) or
\* raises queue.Empty.
transcript_loop(W, got, data, t0, t1) ==
    LET W1 == IF /\ W.current_buffer # <<>>
                 /\ t0 - W.current_buffer[1].last_update
                       > writer_speaker_timeout
              THEN _flush_buffer(W) ELSE W
    IN IF got THEN _process_data(W1, data, t1) ELSE W1

\* Mutant of writer_cleanup: the footer is written before the open
\* accumulator.
writer_cleanup_late(W) ==
    IF W.file_handle = "open"
    THEN LET W1 == _flush_buffer([W EXCEPT !.transcript = Append(@, Footer)])
         IN [W1 EXCEPT !.file_handle = "closed"]
    ELSE _flush_buffer(W)

\* Mutant of writer_cleanup: the open accumulator is not flushed.
writer_cleanup_noflush(W) ==
    IF W.file_handle = "open"
    THEN [W EXCEPT !.transcript = Append(@, Footer),
                   !.file_handle = "closed"]
    ELSE W

\* TranscriptWriterProcess.cleanup()
writer_cleanup(W) ==
    LET W1 == _flush_buffer(W)
    IN IF W1.file_handle = "open"
       THEN [W1 EXCEPT !.transcript = Append(@, Footer),
                       !.file_handle = "closed"]
       ELSE W1

WriterOthers ==
    <<regVars, pmVars, stageVars, audioVars, buffer_duration_ms, utterances,
      dequeued, speakers, next_speaker_id, current_speaker_id, stats,
      assigned, trVars>>

\* setup(): the file is opened and the header written, or open() raises.
WriterSetup(ok) ==
    /\ writerPc = "new"
    /\ writerPc' = "loop"
    /\ IF enabled /\ ok
       THEN /\ file_handle' = "open"
            /\ transcript' = Append(transcript, Header)
            /\ enabled' = enabled
       ELSE /\ enabled' = FALSE
            /\ UNCHANGED <<file_handle, transcript>>
    /\ UNCHANGED <<WriterOthers, now, current_buffer, received>>

\* One pass of loop() in which get returns data after d intervals.
WriterLoopStep(data, d, n) ==
    /\ writerPc = "loop" /\ enabled
    /\ Len(received) < n
    /\ now + d <= MaxWriterTime
    /\ LET W == transcript_loop(Writer, TRUE, data, now, now + d)
       IN /\ transcript' = W.transcript
          /\ current_buffer' = W.current_buffer
    /\ received' = Append(received, [data |-> data, at |-> now + d])
    /\ now' = now + d
    /\ UNCHANGED <<WriterOthers, writerPc, enabled, file_handle>>

WriterLoop(data, d) == WriterLoopStep(data, d, MaxInputs)

\* One pass of loop() in which get times out.
WriterLoopEmpty ==
    /\ writerPc = "loop" /\ enabled
    /\ now < MaxWriterTime
    /\ LET W == transcript_loop(Writer, FALSE, <<>>, now, now + 1)
       IN /\ transcript' = W.transcript
          /\ current_buffer' = W.current_buffer
    /\ now' = now + 1
    /\ UNCHANGED <<WriterOthers, writerPc, enabled, file_handle, received>>

\* One pass of loop() with enabled cleared: time.sleep(1).
WriterLoopDisabled ==
    /\ writerPc = "loop" /\ ~enabled
    /\ now + 2 <= MaxWriterTime
    /\ now' = now + 2
    /\ UNCHANGED <<WriterOthers, twVars>>

\* should_exit is set: run() leaves the loop and calls cleanup().
WriterCleanup ==
    /\ writerPc = "loop"
    /\ writerPc' = "done"
    /\ LET W == writer_cleanup(Writer)
       IN /\ transcript' = W.transcript
          /\ current_buffer' = W.current_buffer
          /\ file_handle' = W.file_handle
    /\ UNCHANGED <<WriterOthers, now, enabled, received>>

\* The messages of WriterLoop: numbered as they arrive.
Data(speaker_id, p) ==
    [speaker_id |-> speaker_id, text |-> p.text, original |-> p.original,
     timestamp |-> Len(received) + 1]

NextWriter ==
    \/ \E ok \in BOOLEAN : WriterSetup(ok)
    \/ \E s \in WriterSpeakers : \E p \in Pairs : \E d \in 0..1 :
          WriterLoop(Data(s, p), d)
    \/ WriterLoopEmpty
    \/ WriterLoopDisabled
    \/ WriterCleanup

SpecWriter == InitRegistry /\ [][NextWriter]_vars

\* The scenario of test_transcript_writer.py with one more input of the
\* first speaker: the speakers of the messages, in order.
Script == <<1, 1, 1, 2, 1>>

ScriptInput(p, d) ==
    /\ Len(received) < Len(Script)
    /\ WriterLoopStep(Data(Script[Len(received) + 1], p), d, Len(Script))

NextScript ==
    \/ \E ok \in BOOLEAN : WriterSetup(ok)
    \/ \E p \in Pairs : \E d \in 0..1 : ScriptInput(p, d)
    \/ WriterLoopEmpty
    \/ WriterLoopDisabled

SpecScript == InitRegistry /\ [][NextScript]_vars

\* The written lines between header and footer.
Entries == SelectSeq(transcript, LAMBDA l : l.kind = "entry")

\* The received messages with a text.
WithText == SelectSeq(received, LAMBDA r : r.data.text # "")

\* One line per maximal run of consecutive messages of one speaker: the
\* texts and the originals of the run, and the timestamp of its first
\* message.
RECURSIVE RunLines(_)
RunLines(msgs) ==
    IF msgs = <<>> THEN <<>>
    ELSE LET h == Head(msgs).data
             rest == RunLines(Tail(msgs))
             orig == IF h.original # "" THEN <<h.original>> ELSE <<>>
         IN IF rest # <<>> /\ rest[1].speaker_id = h.speaker_id
            THEN <<[rest[1] EXCEPT !.text_parts = <<h.text>> \o @,
                                   !.original_parts = orig \o @,
                                   !.time = h.timestamp]>> \o Tail(rest)
            ELSE <<[speaker_id |-> h.speaker_id, text_parts |-> <<h.text>>,
                    original_parts |-> orig, time |-> h.timestamp]>> \o rest

RunEntries(msgs) ==
    LET lines == RunLines(msgs)
    IN [i \in 1..Len(lines) |->
           Entry(lines[i].speaker_id, JoinSpace(lines[i].text_parts),
                 JoinSpace(lines[i].original_parts), lines[i].time)]

\* No two consecutive messages of msgs are more than the speaker timeout
\* apart.
NoIdleTimeout(msgs) ==
    \A i \in 1..Len(msgs) - 1 :
        msgs[i + 1].at - msgs[i].at <= writer_speaker_timeout

\* C28: an identify call whose embedding has similarity of at least
\* similarity_threshold to some tracked identity returns the id of an
\* identity of highest similarity, creates no identity, replaces that
\* identity's embedding with the normalised moving average, refreshes its
\* last_seen, increments its sample_count, and leaves every other tracked
\* identity as it was.
C28_MatchUpdatesOnlyMatched ==
    [][(/\ ret'.op = "identify" /\ now' = now
        /\ stats'.total_identifications = stats.total_identifications + 1
        /\ \E id \in DOMAIN speakers :
              cosine_similarity(ret'.embedding, speakers[id].embedding)
                  >= similarity_threshold)
        => /\ ret'.val \in DOMAIN speakers
           /\ \A o \in DOMAIN speakers :
                 cosine_similarity(ret'.embedding,
                                   speakers[ret'.val].embedding)
                     >= cosine_similarity(ret'.embedding,
                                          speakers[o].embedding)
           /\ DOMAIN speakers' \subseteq DOMAIN speakers
           /\ next_speaker_id' = next_speaker_id
           /\ ret'.val \in DOMAIN speakers'
           /\ speakers'[ret'.val] =
                 [embedding |-> Ema(speakers[ret'.val].embedding,
                                    ret'.embedding),
                  last_seen |-> now,
                  sample_count |-> speakers[ret'.val].sample_count + 1]
           /\ \A o \in DOMAIN speakers \ {ret'.val} :
                 o \in DOMAIN speakers' /\ speakers'[o] = speakers[o]
       ]_vars

\* C28 with the purge: as above, except that when the call is a
\* CleanupEvery-th identification the other identities last seen more than
\* speaker_timeout ago are removed; the other identities that stay are as
\* they were.
C28_MatchUpdatesMatchedAndPurges ==
    [][(/\ ret'.op = "identify" /\ now' = now
        /\ stats'.total_identifications = stats.total_identifications + 1
        /\ \E id \in DOMAIN speakers :
              cosine_similarity(ret'.embedding, speakers[id].embedding)
                  >= similarity_threshold)
        => /\ ret'.val \in DOMAIN speakers
           /\ \A o \in DOMAIN speakers :
                 cosine_similarity(ret'.embedding,
                                   speakers[ret'.val].embedding)
                     >= cosine_similarity(ret'.embedding,
                                          speakers[o].embedding)
           /\ DOMAIN speakers' \subseteq DOMAIN speakers
           /\ next_speaker_id' = next_speaker_id
           /\ ret'.val \in DOMAIN speakers'
           /\ speakers'[ret'.val] =
                 [embedding |-> Ema(speakers[ret'.val].embedding,
                                    ret'.embedding),
                  last_seen |-> now,
                  sample_count |-> speakers[ret'.val].sample_count + 1]
           /\ \A o \in DOMAIN speakers \ {ret'.val} :
                 IF /\ stats'.total_identifications % CleanupEvery = 0
                    /\ now - speakers[o].last_seen > speaker_timeout
                 THEN o \notin DOMAIN speakers'
                 ELSE o \in DOMAIN speakers' /\ speakers'[o] = speakers[o]
       ]_vars

\* C28 witness: the third identification matched speaker 2, which now has
\* two samples and was seen now, and purged speaker 1.
C28_Witness ==
    /\ ret.op = "identify" /\ ret.val = 2
    /\ stats.total_identifications = CleanupEvery
    /\ stats.new_speakers_detected = 2
    /\ DOMAIN speakers = {2}
    /\ speakers[2].sample_count = 2 /\ speakers[2].last_seen = now

\* C29: leaving reset() aside, identities are removed only by an identify
\* call that computed an embedding and made total_identifications a
\* multiple of CleanupEvery; calls that return none do not count; such a
\* call removes exactly the identities last seen more than speaker_timeout
\* ago, the one it matched and refreshed excepted.
C29_PurgeOnlyPeriodic ==
    [][ret'.op # "reset" =>
        LET counted == stats'.total_identifications
                          = stats.total_identifications + 1
            purging == counted
                          /\ stats'.total_identifications % CleanupEvery = 0
            matched(id) ==
                /\ ret'.val = id
                /\ cosine_similarity(ret'.embedding, speakers[id].embedding)
                      >= similarity_threshold
        IN /\ (ret'.op = "identify" /\ now' = now /\ ret'.embedding = None)
                 => ~counted
           /\ ~purging => DOMAIN speakers \subseteq DOMAIN speakers'
           /\ purging =>
                 /\ \A id \in DOMAIN speakers :
                       id \notin DOMAIN speakers'
                           <=> /\ now - speakers[id].last_seen
                                      > speaker_timeout
                               /\ ~matched(id)
                 /\ \A id \in DOMAIN speakers' \ DOMAIN speakers :
                       speakers'[id].last_seen = now
       ]_vars

\* C29 witness: the third identification created speaker 2 and then purged
\* speaker 1, which had two samples.
C29_Witness ==
    /\ ret.op = "identify" /\ ret.val = 2
    /\ stats.total_identifications = CleanupEvery
    /\ stats.new_speakers_detected = 2
    /\ DOMAIN speakers = {2}
    /\ speakers[2].sample_count = 1 /\ speakers[2].last_seen = now

\* C21: a pass of the loop that emits a translation for a message of
\* speaker A appends the pair (text, translation) to A's context buffer,
\* dropping A's oldest entry if the buffer was full; the buffer of every
\* other speaker and the shared buffer stay as they were, and so does the
\* context string built for every other speaker and for no speaker.
C21_ContextIsolation ==
    [][\A A \in {1, 2} :
          (/\ ret'.op = "translate"
           /\ metrics'.total_translations = metrics.total_translations + 1
           /\ ret'.emitted /\ ret'.speaker_id = A)
          => LET old == _get_speaker_context_buffer(Translator, A).buf
                 new == _get_speaker_context_buffer(Translator', A).buf
             IN /\ A \in DOMAIN speaker_contexts'
                /\ new # <<>>
                /\ new[Len(new)] = [source |-> ret'.text,
                                    target |-> ret'.translated,
                                    timestamp |-> now]
                /\ SubSeq(new, 1, Len(new) - 1)
                      = IF Len(old) >= context_buffer_size THEN Tail(old)
                        ELSE old
                /\ global_context_buffer' = global_context_buffer
                /\ \A B \in (DOMAIN speaker_contexts
                                \cup DOMAIN speaker_contexts') \ {A} :
                      /\ B \in DOMAIN speaker_contexts
                      /\ B \in DOMAIN speaker_contexts'
                      /\ speaker_contexts'[B] = speaker_contexts[B]
                /\ \A B \in {None, 1, 2} \ {A} :
                      _build_context_string(Translator', B).context
                          = _build_context_string(Translator, B).context
      ]_vars

\* C21 witness: speaker 1 has just got its second entry, speaker 2 holds
\* one and the shared buffer none.
C21_Witness ==
    /\ ret.op = "translate" /\ ret.emitted /\ ret.speaker_id = 1
    /\ DOMAIN speaker_contexts = {1, 2}
    /\ Len(speaker_contexts[1]) = 2 /\ Len(speaker_contexts[2]) = 1
    /\ speaker_contexts[1][2].source = ret.text
    /\ global_context_buffer = <<>>

C23_FailedItemDropped ==
    [][(/\ ret'.op = "translate"
        /\ metrics'.total_translations = metrics.total_translations + 1
        /\ Len(calls') = Len(calls) + 1
        /\ calls'[Len(calls')].failed)
        => /\ ~ret'.emitted
           /\ \A i \in 1..Len(translation_cache') :
                 \E j \in 1..Len(translation_cache) :
                    translation_cache'[i] = translation_cache[j]
           /\ global_context_buffer' = global_context_buffer
           /\ \A s \in {1, 2} :
                 _get_speaker_context_buffer(Translator', s).buf
                    = _get_speaker_context_buffer(Translator, s).buf
      ]_vars

\* C23 by engine: under MarianMT and NLLB the item is dropped as above;
\* under Google the text itself is emitted as its translation, stored in the
\* cache with the current time and appended to the speaker's context buffer.
C23_FailedItemDroppedOrPassedOn ==
    [][(/\ ret'.op = "translate"
        /\ metrics'.total_translations = metrics.total_translations + 1
        /\ Len(calls') = Len(calls) + 1
        /\ calls'[Len(calls')].failed)
        => IF engine # "google"
           THEN /\ ~ret'.emitted
                /\ \A i \in 1..Len(translation_cache') :
                      \E j \in 1..Len(translation_cache) :
                         translation_cache'[i] = translation_cache[j]
                /\ global_context_buffer' = global_context_buffer
                /\ \A s \in {1, 2} :
                      _get_speaker_context_buffer(Translator', s).buf
                         = _get_speaker_context_buffer(Translator, s).buf
           ELSE LET new == _get_speaker_context_buffer(
                               Translator', ret'.speaker_id).buf
                IN /\ ret'.emitted /\ ret'.translated = ret'.text
                   /\ \E i \in 1..Len(translation_cache') :
                         translation_cache'[i]
                            = [key |-> _hash_text(ret'.text),
                               translation |-> ret'.text,
                               timestamp |-> now]
                   /\ new # <<>>
                   /\ new[Len(new)] = [source |-> ret'.text,
                                       target |-> ret'.text,
                                       timestamp |-> now]
      ]_vars

\* C23 witness: under MarianMT the second item failed after the first was
\* translated; only the first is in the cache and in its speaker's buffer.
C23_Witness ==
    /\ engine = "marian"
    /\ ret.op = "translate" /\ ~ret.emitted /\ ret.speaker_id = 1
    /\ Len(calls) = 2 /\ ~calls[1].failed /\ calls[2].failed
    /\ calls[2].text = ret.text /\ calls[1].text # ret.text
    /\ Len(translation_cache) = 1
    /\ translation_cache[1].key = _hash_text(calls[1].text)
    /\ DOMAIN speaker_contexts = {1}
    /\ Len(speaker_contexts[1]) = 1
    /\ speaker_contexts[1][1].source = calls[1].text

\* C30: a pass of the loop that stores a translation evicts only when the
\* text is not in the cache and the cache already holds cache_max_size
\* entries; it then removes max(1, cache_max_size \div 10) entries, none of
\* them newer than an entry it keeps; in every other case all entries of
\* other texts stay.
C30_EvictOnlyWhenGrowing ==
    [][(/\ ret'.op = "translate"
        /\ metrics'.total_translations = metrics.total_translations + 1
        /\ Len(calls') = Len(calls) + 1
        /\ ~calls'[Len(calls')].failed
        /\ ~(ret'.text \in Blank))
        => LET h == _hash_text(ret'.text)
               all == {translation_cache[i] : i \in 1..Len(translation_cache)}
               pre == {e \in all : e.key # h \/ now - e.timestamp < cache_ttl}
               post == {translation_cache'[i] :
                           i \in 1..Len(translation_cache')}
               grows == \A e \in pre : e.key # h
               removed == {e \in pre : e.key # h} \ post
               n == IF cache_max_size \div 10 > 1 THEN cache_max_size \div 10
                    ELSE 1
           IN /\ \E e \in post : e.key = h /\ e.timestamp = now
              /\ {e \in post : e.key # h} \subseteq pre
              /\ IF grows /\ Cardinality(pre) + 1 > cache_max_size
                 THEN /\ Cardinality(removed) = n
                      /\ \A r \in removed : \A k \in pre \ removed :
                            r.timestamp <= k.timestamp
                 ELSE removed = {}
      ]_vars

LineOfOneSpeaker(speaker_id, parts, first, last) ==
    LET block == SelectSeq(SubSeq(received, first, last),
                           LAMBDA r : r.data.text # "")
    IN /\ block # <<>>
       /\ \A i \in 1..Len(block) : block[i].data.speaker_id = speaker_id
       /\ parts = JoinSpace([i \in 1..Len(block) |-> block[i].data.text])

NoLineMixesSpeakers ==
    LET open == IF current_buffer # <<>>
                THEN current_buffer[1].start_time - 1 ELSE Len(received)
    IN /\ \A i \in 1..Len(Entries) :
             \E s \in WriterSpeakers :
                /\ Entries[i].speaker = Entry(s, "", "", 0).speaker
                /\ LineOfOneSpeaker(s, Entries[i].text, Entries[i].time,
                                    IF i < Len(Entries)
                                    THEN Entries[i + 1].time - 1 ELSE open)
       /\ current_buffer # <<>>
          => LineOfOneSpeaker(current_buffer[1].speaker_id,
                              JoinSpace(current_buffer[1].text_parts),
                              current_buffer[1].start_time, Len(received))

C31_CacheBounded ==
    /\ Len(translation_cache) <= cache_max_size
    /\ \A i, j \in 1..Len(translation_cache) :
          translation_cache[i].key = translation_cache[j].key => i = j

\* C31 witness: a third text has been stored in a cache of cache_max_size
\* entries, which is full again.
C31_Witness ==
    /\ ret.op = "translate" /\ ~ret.cached /\ ret.emitted
    /\ Len(calls) = cache_max_size + 1
    /\ \A i, j \in 1..Len(calls) : calls[i].text = calls[j].text => i = j
    /\ Len(translation_cache) = cache_max_size
    /\ translation_cache[Len(translation_cache)].key = _hash_text(ret.text)

\* C32: no context buffer, a speaker's or the shared one, ever holds more
\* than context_buffer_size entries; a pass that emits a translation leaves
\* the buffer of the message's speaker with the entries it had, in their
\* order and without the oldest if the buffer was full, followed by one new
\* entry.
C32_BuffersBounded ==
    /\ [](/\ Len(global_context_buffer) <= context_buffer_size
          /\ \A s \in DOMAIN speaker_contexts :
                Len(speaker_contexts[s]) <= context_buffer_size)
    /\ [][(/\ ret'.op = "translate"
           /\ metrics'.total_translations = metrics.total_translations + 1
           /\ ret'.emitted)
           => LET s == ret'.speaker_id
                  old == IF s = None THEN global_context_buffer
                         ELSE IF s \in DOMAIN speaker_contexts
                         THEN speaker_contexts[s] ELSE <<>>
                  new == IF s = None THEN global_context_buffer'
                         ELSE speaker_contexts'[s]
              IN IF Len(old) = context_buffer_size
                 THEN /\ Len(new) = context_buffer_size
                      /\ \A i \in 1..Len(old) - 1 : new[i] = old[i + 1]
                 ELSE /\ Len(new) = Len(old) + 1
                      /\ \A i \in 1..Len(old) : new[i] = old[i]
         ]_vars

\* C32 witness: speaker 1's buffer was full and has taken one more entry;
\* it holds the last context_buffer_size texts translated.
C32_Witness ==
    /\ engine = "marian" /\ ret.op = "translate" /\ ret.emitted
    /\ Len(calls) = context_buffer_size + 1
    /\ \A i \in 1..Len(calls) : ~calls[i].failed
    /\ DOMAIN speaker_contexts = {1}
    /\ global_context_buffer = <<>>
    /\ Len(speaker_contexts[1]) = context_buffer_size
    /\ \A i \in 1..context_buffer_size :
          speaker_contexts[1][i].source = calls[i + 1].text
    /\ calls[1].text # calls[2].text

\* The lengths of the fragments of the k most recent entries of buf, added
\* up.
RECURSIVE SumLast(_, _)
SumLast(buf, k) ==
    IF k = 0 THEN 0
    ELSE Len(ContextPart(buf[Len(buf) - k + 1])) + SumLast(buf, k - 1)

\* The number of entries in the longest run of most recent entries of buf
\* whose fragments together fit into max_context_length.
LongestFit(buf) ==
    CHOOSE k \in 0..Len(buf) :
        /\ SumLast(buf, k) <= max_context_length
        /\ \A j \in k + 1..Len(buf) : SumLast(buf, j) > max_context_length

\* C33: the context string built from the shared buffer is the fragments of
\* the longest run of its most recent entries that together fit into
\* max_context_length, oldest first and joined by " || "; it is empty for an
\* empty buffer.
C33_ContextIsLongestFit ==
    LET buf == global_context_buffer
        k == LongestFit(buf)
        context == _build_context_string(Translator, None).context
    IN /\ context = JoinParts([i \in 1..k |->
                                  ContextPart(buf[Len(buf) - k + i])])
       /\ buf = <<>> => context = ""

\* C33 witness: the most recent entry alone is longer than
\* max_context_length, and the short entry before it is not in the string
\* either.
C33_Witness ==
    /\ Len(global_context_buffer) = 2
    /\ global_context_buffer[1].source = "a"
    /\ global_context_buffer[2].source = Text190
    /\ Len(ContextPart(global_context_buffer[1])) <= max_context_length
    /\ Len(ContextPart(global_context_buffer[2])) > max_context_length
    /\ _build_context_string(Translator, None).context = ""

\* C38: no context string, the one the buffer gives now or one that was
\* used for a translation, is longer than max_context_length.
C38_ContextLengthBounded ==
    /\ Len(_build_context_string(Translator, None).context)
          <= max_context_length
    /\ \A i \in 1..Len(calls) : Len(calls[i].context) <= max_context_length

\* C34: between passes of the loop total_translations is the sum of
\* cache_hits and cache_misses, and with_context and without_context add up
\* to cache_misses; a pass on a text that is not blank adds one to
\* total_translations and one to exactly one of cache_hits and cache_misses.
C34_MetricsConsistent ==
    /\ [](/\ metrics.total_translations
                = metrics.cache_hits + metrics.cache_misses
          /\ metrics.with_context + metrics.without_context
                = metrics.cache_misses)
    /\ [][(ret'.op = "translate" /\ now' = now /\ ~(ret'.text \in Blank))
           => /\ metrics'.total_translations = metrics.total_translations + 1
              /\ metrics'.cache_hits + metrics'.cache_misses
                    = metrics.cache_hits + metrics.cache_misses + 1
              /\ metrics'.cache_hits >= metrics.cache_hits
              /\ metrics'.cache_misses >= metrics.cache_misses
         ]_vars

\* C35: when identify_speaker returns an id, that id is an identity of
\* the table at the return, and it is what get_current_speaker() gives.
C35_ReturnedIdTracked ==
    [][(/\ ret'.op = "identify" /\ now' = now
        /\ stats'.total_identifications = stats.total_identifications + 1
        /\ ret'.val # None)
        => /\ ret'.val \in DOMAIN speakers'
           /\ current_speaker_id' = ret'.val
      ]_vars

\* C36: a text is added to the open accumulator only if it arrives no more
\* than the speaker timeout after the accumulator's last text, so no line
\* joins two successive texts that arrived further apart.
C36_NoMergeAcrossTimeout ==
    [][(/\ Len(received') = Len(received) + 1
        /\ current_buffer # <<>> /\ current_buffer' # <<>>
        /\ current_buffer'[1].start_time = current_buffer[1].start_time
        /\ Len(current_buffer'[1].text_parts)
              = Len(current_buffer[1].text_parts) + 1)
        => received'[Len(received')].at - current_buffer[1].last_update
              <= writer_speaker_timeout
      ]_vars

C39_EmitsOnAllThreeChannels ==
    [][(/\ pc["Translation"] = "infer"
        /\ pc'["Translation"] = "idle"
        /\ Len(chans'[translation_tts_queue].items) =
              Len(chans[translation_tts_queue].items) + 1)
       => /\ Len(chans'[translation_ui_queue].items) =
                Len(chans[translation_ui_queue].items) + 1
          /\ Len(chans'[writer_input_queue].items) =
                Len(chans[writer_input_queue].items) + 1]_vars

\* C40: capture starts paused and sends no frame before a resume command
\* has been applied, and every command the overlay issues reaches capture in
\* issue order, also when the control channel is full at that moment: once
\* no command is in flight the overlay's is_running and capture's paused
\* agree.
C40_ControlAgrees ==
    /\ (toggles = 0 => paused /\ chans[capture_audio_queue].items = <<>>)
    /\ (chans[capture_control_queue].items = <<>> => is_running = ~paused)
====
